---- MODULE Spec2Model ----
(***************************************************************************)
(* A model of libecto, a Go client for the Ghost Admin API.                *)
(*                                                                         *)
(* The client is a (baseURL, apiKey, httpClient) triple.  Every operation  *)
(* mints a token, sends one HTTP request through httpClient and classifies *)
(* the response (Client.request / Client.do).  The state machine has one   *)
(* action per exported operation (the code from its entry to the point     *)
(* where it blocks in httpClient.Do, or to its return when no request is   *)
(* sent) and one action per place where a response is received (the code   *)
(* from the return of httpClient.Do to the next blocking point or to the   *)
(* operation's return).  The peer (server and network) is the environment: *)
(* it answers every request with any element of Responses.                 *)
(***************************************************************************)
EXTENDS Integers, Sequences, FiniteSets, TLC

VARIABLES
    baseURL,    \* Client.baseURL
    apiKey,     \* Client.apiKey: the credential, a sequence of characters
    httpClient, \* Client.httpClient: which *http.Client the requests go through
    clock,      \* the wall clock read by time.Now(), in seconds
    call,       \* the operation in progress: its name, arguments and position
    inflight,   \* the request handed to httpClient.Do and not yet answered
    attempts,   \* the Transport calls (Client.do / upload) of this operation
    buf,        \* the operation's result buffer (var resp XxxResponse)
    result,     \* what the operation returned to its caller
    mints,      \* the direct calls of GenerateToken and GenerateTokenWithTime
                \* made so far, with what each returned
    parked      \* the locals (call .. result) of the other goroutine that
                \* uses the client, while it is not the one taking a step

client == <<baseURL, apiKey, httpClient>>

vars == <<baseURL, apiKey, httpClient, clock, call, inflight, attempts, buf, result,
          mints, parked>>

---------------------------------------------------------------------------
(* Bounds of the model                                                     *)

MaxClock == 1
MaxLimit == 1
MaxKeyLen == 4
MaxMints == 3
MaxURLLen == 4
MaxPage == 1

---------------------------------------------------------------------------
(* JSON values.  A response body is the byte string Render(j) of a JSON    *)
(* value j, or a byte string that is not JSON at all (tag "text").         *)

JStr(s)  == [t |-> "str", s |-> s]
JNum(n)  == [t |-> "num", n |-> n]
JNull    == [t |-> "null"]
JArr(a)  == [t |-> "arr", a |-> a]
JObj(p)  == [t |-> "obj", p |-> p]
JText(s) == [t |-> "text", s |-> s]
NoBody   == [t |-> "none"]

RECURSIVE Render(_)
RECURSIVE RenderElems(_, _)
RECURSIVE RenderPairs(_, _)

RenderElems(a, i) ==
    IF i > Len(a) THEN ""
    ELSE (IF i > 1 THEN "," ELSE "") \o Render(a[i]) \o RenderElems(a, i + 1)

RenderPairs(p, i) ==
    IF i > Len(p) THEN ""
    ELSE (IF i > 1 THEN "," ELSE "") \o "\"" \o p[i][1] \o "\":"
         \o Render(p[i][2]) \o RenderPairs(p, i + 1)

Render(j) ==
    CASE j.t = "str"  -> "\"" \o j.s \o "\""
      [] j.t = "num"  -> ToString(j.n)
      [] j.t = "null" -> "null"
      [] j.t = "arr"  -> "[" \o RenderElems(j.a, 1) \o "]"
      [] j.t = "obj"  -> "{" \o RenderPairs(j.p, 1) \o "}"
      [] j.t = "text" -> j.s
      [] OTHER        -> ""

---------------------------------------------------------------------------
(* Resource types (types.go).  A record of a resource type is a function   *)
(* from the JSON names of its string fields to strings; "" is Go's zero    *)
(* value, which omitempty leaves out of the encoding.                      *)

Plural(kind) ==
    CASE kind = "post"       -> "posts"
      [] kind = "page"       -> "pages"
      [] kind = "tag"        -> "tags"
      [] kind = "user"       -> "users"
      [] kind = "newsletter" -> "newsletters"
      [] kind = "webhook"    -> "webhooks"
      [] kind = "image"      -> "images"
      [] kind = "setting"    -> "settings"
      [] kind = "site"       -> "site"
      [] kind = "error"      -> "errors"

\* the string fields of each record type that the model keeps, in the
\* order of the struct declaration
Fields(kind) ==
    CASE kind = "post"       -> <<"id", "slug", "status", "published_at", "updated_at">>
      [] kind = "page"       -> <<"id", "slug", "status", "published_at", "updated_at">>
      [] kind = "tag"        -> <<"id", "name", "slug">>
      [] kind = "user"       -> <<"id", "name", "slug">>
      [] kind = "newsletter" -> <<"id", "name", "slug">>
      [] kind = "webhook"    -> <<"id", "event", "target_url">>
      [] kind = "image"      -> <<"url", "ref">>
      [] kind = "setting"    -> <<"key", "value">>
      [] kind = "site"       -> <<"title", "description", "logo", "icon",
                                  "url", "version">>
      [] kind = "error"      -> <<"message", "context", "type">>

FieldSet(kind) == {Fields(kind)[i] : i \in 1..Len(Fields(kind))}

\* PostsResponse, PagesResponse, TagsResponse and UsersResponse have a
\* Meta *Meta field next to the collection; the other wrappers do not.
HasMeta(kind) == kind \in {"post", "page", "tag", "user"}

\* Setting.Value is an interface{}: it takes a JSON value of any type
AnyFields(kind) == IF kind = "setting" THEN {"value"} ELSE {}

\* SiteResponse holds one Site, not a slice; a result buffer <<>> stands
\* for its zero value
IsStruct(kind) == kind = "site"

Zero(kind) == [f \in FieldSet(kind) |-> ""]

---------------------------------------------------------------------------
(* encoding/json, as the client uses it.                                   *)
(*                                                                         *)
(* json.Unmarshal first checks the syntax of the whole input and fails     *)
(* without touching the destination when it is not JSON.  Otherwise it     *)
(* decodes value by value INTO the destination: a key the destination      *)
(* has no field for is skipped, null leaves a string untouched and sets a  *)
(* slice to nil, a value of the wrong JSON type leaves the field untouched *)
(* and is remembered as the error to return once the whole input has been  *)
(* decoded.  An array is decoded element by element into the elements the  *)
(* slice already has, and into zero values beyond them.                    *)

\* one member k: j of a JSON object decoded into the record acc.v
DecodeField(k, j, kind, acc) ==
    IF k \notin FieldSet(kind) THEN acc
    ELSE IF k \in AnyFields(kind)
    \* an interface{}: a string is kept as it is, null clears it, any
    \* other value is kept, here as its JSON text
    THEN [acc EXCEPT !.v = [acc.v EXCEPT ![k] =
             CASE j.t = "str"  -> j.s
               [] j.t = "null" -> ""
               [] OTHER        -> Render(j)]]
    ELSE IF j.t = "str" THEN [acc EXCEPT !.v = [acc.v EXCEPT ![k] = j.s]]
    ELSE IF j.t = "null" THEN acc
    ELSE [acc EXCEPT !.err = TRUE]

RECURSIVE DecodeFields(_, _, _, _)
DecodeFields(p, i, kind, acc) ==
    IF i > Len(p) THEN acc
    ELSE DecodeFields(p, i + 1, kind,
                      DecodeField(p[i][1], p[i][2], kind, acc))

DecodeStruct(j, kind, cur) ==
    CASE j.t = "obj"  -> DecodeFields(j.p, 1, kind, [v |-> cur, err |-> FALSE])
      [] j.t = "null" -> [v |-> cur, err |-> FALSE]
      [] OTHER        -> [v |-> cur, err |-> TRUE]

DecodeSlice(j, kind, cur) ==
    CASE j.t = "arr"  ->
            LET el(i) == DecodeStruct(j.a[i], kind,
                             IF i <= Len(cur) THEN cur[i] ELSE Zero(kind))
            IN  [v   |-> [i \in 1..Len(j.a) |-> el(i).v],
                 err |-> \E i \in 1..Len(j.a) : el(i).err]
      [] j.t = "null" -> [v |-> <<>>, err |-> FALSE]
      [] OTHER        -> [v |-> cur, err |-> TRUE]

\* one member k: j of the response body decoded into the wrapper
DecodeKey(k, j, kind, acc) ==
    IF k = Plural(kind) /\ IsStruct(kind)
    THEN LET cur == IF acc.v = <<>> THEN Zero(kind) ELSE acc.v[1]
             d   == DecodeStruct(j, kind, cur)
         IN  [v   |-> IF d.v = Zero(kind) /\ acc.v = <<>>
                      THEN <<>> ELSE <<d.v>>,
              err |-> acc.err \/ d.err]
    ELSE IF k = Plural(kind)
    THEN LET d == DecodeSlice(j, kind, acc.v)
         IN  [v |-> d.v, err |-> acc.err \/ d.err]
    ELSE IF k = "meta" /\ HasMeta(kind) /\ j.t \notin {"obj", "null"}
    THEN [acc EXCEPT !.err = TRUE]
    ELSE acc

RECURSIVE DecodeKeys(_, _, _, _)
DecodeKeys(p, i, kind, acc) ==
    IF i > Len(p) THEN acc
    ELSE DecodeKeys(p, i + 1, kind, DecodeKey(p[i][1], p[i][2], kind, acc))

\* json.Unmarshal(respBody, &resp) for the collection wrapper of `kind`
\* whose collection currently holds `cur`
Unmarshal(j, kind, cur) ==
    CASE j.t = "obj"  -> DecodeKeys(j.p, 1, kind, [v |-> cur, err |-> FALSE])
      [] j.t = "null" -> [v |-> cur, err |-> FALSE]
      [] OTHER        -> [v |-> cur, err |-> TRUE]

\* json.Marshal of one record: the fields in declaration order, the
\* omitempty ones left out when empty
RECURSIVE MarshalFields(_, _, _)
MarshalFields(rec, kind, i) ==
    IF i > Len(Fields(kind)) THEN <<>>
    ELSE LET f == Fields(kind)[i]
         IN  (IF rec[f] = "" THEN <<>> ELSE << <<f, JStr(rec[f])>> >>)
             \o MarshalFields(rec, kind, i + 1)

Marshal(rec, kind) == JObj(MarshalFields(rec, kind, 1))

---------------------------------------------------------------------------
(* auth.go.  A credential is a sequence of one-character strings.          *)

\* the string made of the characters of a sequence
RECURSIVE Str(_)
Str(cs) == IF cs = <<>> THEN "" ELSE Head(cs) \o Str(Tail(cs))

HexDigits == <<"0", "1", "2", "3", "4", "5", "6", "7", "8", "9",
               "a", "b", "c", "d", "e", "f">>
HexUpper  == <<"0", "1", "2", "3", "4", "5", "6", "7", "8", "9",
               "A", "B", "C", "D", "E", "F">>

\* hex.DecodeString takes the digits in either case
IsHex(c) == \E i \in 1..16 : HexDigits[i] = c \/ HexUpper[i] = c

HexVal(c) == (CHOOSE i \in 1..16 : HexDigits[i] = c \/ HexUpper[i] = c) - 1

\* strings.Split(apiKey, ":")
RECURSIVE Split(_, _)
Split(cs, cur) ==
    IF cs = <<>> THEN <<cur>>
    ELSE IF Head(cs) = ":" THEN <<cur>> \o Split(Tail(cs), <<>>)
    ELSE Split(Tail(cs), Append(cur, Head(cs)))

\* what %#U prints for the characters of the model's alphabet that are
\* not hexadecimal digits
CodePoint(c) ==
    CASE c = "k" -> "U+006B 'k'"
      [] c = "z" -> "U+007A 'z'"
      [] OTHER   -> "U+003F '?'"

\* hex.DecodeString: the bytes of the pairs before the first invalid
\* character; the first invalid character is reported before an odd length
RECURSIVE HexDecode(_, _)
HexDecode(cs, acc) ==
    IF cs = <<>> THEN [bytes |-> acc, err |-> ""]
    ELSE IF ~IsHex(cs[1])
         THEN [bytes |-> acc,
               err |-> "encoding/hex: invalid byte: " \o CodePoint(cs[1])]
    ELSE IF Len(cs) = 1
         THEN [bytes |-> acc, err |-> "encoding/hex: odd length hex string"]
    ELSE IF ~IsHex(cs[2])
         THEN [bytes |-> acc,
               err |-> "encoding/hex: invalid byte: " \o CodePoint(cs[2])]
    ELSE HexDecode(Tail(Tail(cs)),
                   Append(acc, HexVal(cs[1]) * 16 + HexVal(cs[2])))

ParseFail(text) == [id |-> "", secret |-> <<>>, isNil |-> TRUE, err |-> text]

\* ParseAPIKey returning the id it has already assigned when the secret is
\* not hexadecimal
ParseAPIKey_KeepsID(key) ==
    LET parts == Split(key, <<>>)
    IN  IF Len(parts) # 2
        THEN ParseFail("invalid API key format: expected 'id:secret'")
        ELSE IF parts[1] = <<>>
        THEN ParseFail("invalid API key format: id cannot be empty")
        ELSE IF parts[2] = <<>>
        THEN ParseFail("invalid API key format: secret cannot be empty")
        ELSE LET h == HexDecode(parts[2], <<>>)
             IN  IF h.err # ""
                 THEN [ParseFail("invalid API key secret: " \o h.err)
                          EXCEPT !.id = Str(parts[1])]
                 ELSE [id |-> Str(parts[1]), secret |-> h.bytes,
                       isNil |-> FALSE, err |-> ""]

\* err = "" stands for a nil error
ParseAPIKey(key) ==
    LET parts == Split(key, <<>>)
    IN  IF Len(parts) # 2
        THEN ParseFail("invalid API key format: expected 'id:secret'")
        ELSE IF parts[1] = <<>>
        THEN ParseFail("invalid API key format: id cannot be empty")
        ELSE IF parts[2] = <<>>
        THEN ParseFail("invalid API key format: secret cannot be empty")
        ELSE LET h == HexDecode(parts[2], <<>>)
             IN  IF h.err # ""
                 THEN ParseFail("invalid API key secret: " \o h.err)
                 ELSE [id |-> Str(parts[1]), secret |-> h.bytes,
                       isNil |-> FALSE, err |-> ""]

NoToken == [kid |-> "", typ |-> "", alg |-> "", iat |-> 0, exp |-> 0,
            aud |-> "", key |-> <<>>]

\* GenerateTokenWithTime reading the clock instead of its argument
GenerateTokenWithTime_Now(key, now) ==
    LET k == ParseAPIKey(key)
    IN  IF k.err # "" THEN [token |-> NoToken, err |-> k.err]
        ELSE [token |-> [kid |-> k.id, typ |-> "JWT", alg |-> "HS256",
                         iat |-> clock, exp |-> clock + 5 * 60,
                         aud |-> "/admin/", key |-> k.secret],
              err |-> ""]

\* the token is the header, the claims and the key that signs them
GenerateTokenWithTime(key, now) ==
    LET k == ParseAPIKey(key)
    IN  IF k.err # "" THEN [token |-> NoToken, err |-> k.err]
        ELSE [token |-> [kid |-> k.id, typ |-> "JWT", alg |-> "HS256",
                         iat |-> now, exp |-> now + 5 * 60,
                         aud |-> "/admin/", key |-> k.secret],
              err |-> ""]

\* GenerateToken with the audience of another API version
GenerateToken_OtherAudience(key) ==
    LET k == ParseAPIKey(key)
        now == clock
    IN  IF k.err # "" THEN [token |-> NoToken, err |-> k.err]
        ELSE [token |-> [kid |-> k.id, typ |-> "JWT", alg |-> "HS256",
                         iat |-> now, exp |-> now + 5 * 60,
                         aud |-> "/v3/admin/", key |-> k.secret],
              err |-> ""]

\* GenerateToken with a lifetime of five seconds
GenerateToken_FiveSeconds(key) ==
    LET k == ParseAPIKey(key)
        now == clock
    IN  IF k.err # "" THEN [token |-> NoToken, err |-> k.err]
        ELSE [token |-> [kid |-> k.id, typ |-> "JWT", alg |-> "HS256",
                         iat |-> now, exp |-> now + 5,
                         aud |-> "/admin/", key |-> k.secret],
              err |-> ""]

\* the same code, with now := time.Now()
GenerateToken(key) ==
    LET k == ParseAPIKey(key)
        now == clock
    IN  IF k.err # "" THEN [token |-> NoToken, err |-> k.err]
        ELSE [token |-> [kid |-> k.id, typ |-> "JWT", alg |-> "HS256",
                         iat |-> now, exp |-> now + 5 * 60,
                         aud |-> "/admin/", key |-> k.secret],
              err |-> ""]

---------------------------------------------------------------------------
(* Errors.  kind "nil" is Go's nil error.  The texts the repository's own  *)
(* code formats are kept; the texts of errors made by net/http and         *)
(* encoding/json are stood for by a fixed string.                          *)

Err(kind, text, status) == [kind |-> kind, text |-> text, status |-> status]
NoErr == Err("nil", "", 0)

NoReq == [method |-> "", url |-> "", body |-> NoBody, auth |-> <<"", NoToken>>,
          ctype |-> ""]

\* request setting the Content-Type on every request
request_AlwaysJSON(method, path, body) ==
    LET tok == GenerateToken(apiKey)
    IN  IF tok.err # ""
        THEN [err |-> Err("token", "generating token: " \o tok.err, 0),
              req |-> NoReq]
        ELSE [err |-> NoErr,
              req |-> [method |-> method,
                       url    |-> baseURL \o path,
                       body   |-> body,
                       auth   |-> <<"Ghost ", tok.token>>,
                       ctype  |-> "application/json"]]

\* Client.request up to the call of httpClient.Do: the error it returns
\* without sending, or the request it hands to httpClient.Do.  The body is
\* a JSON value or NoBody (nil); json.Marshal cannot fail on the bodies the
\* client builds and http.NewRequest is taken to accept the url.
request(method, path, body) ==
    LET tok == GenerateToken(apiKey)
    IN  IF tok.err # ""
        THEN [err |-> Err("token", "generating token: " \o tok.err, 0),
              req |-> NoReq]
        ELSE [err |-> NoErr,
              req |-> [method |-> method,
                       url    |-> baseURL \o path,
                       body   |-> body,
                       auth   |-> <<"Ghost ", tok.token>>,
                       ctype  |-> IF body.t # "none"
                                  THEN "application/json" ELSE ""]]

---------------------------------------------------------------------------
(* What httpClient.Do and io.ReadAll can give back for one request: a      *)
(* transport failure, a response whose body cannot be read, or a status    *)
(* and a body.                                                             *)

Statuses == {200, 399, 400, 422}

\* the status the peer holds for its record n
SampleStatus(n) ==
    CASE n = "2" -> "published"
      [] n = "1" -> "draft"
      [] OTHER   -> "scheduled"

\* a record of `kind` as the peer sends it: its first and last field set,
\* and its status when the kind has one
SampleRec(kind, n) ==
    JObj(<< <<Fields(kind)[1], JStr(n)>> >>
         \o (IF "status" \in FieldSet(kind)
             THEN << <<"status", JStr(SampleStatus(n))>> >> ELSE << >>)
         \o << <<Fields(kind)[Len(Fields(kind))], JStr("u" \o n)>> >>)

ErrEntry(message, context) ==
    JObj(<< <<"message", JStr(message)>>, <<"context", JStr(context)>> >>)

\* the bodies that hold what was asked for
DataBodies(kind) ==
    IF IsStruct(kind)
    THEN { JObj(<< <<Plural(kind), SampleRec(kind, "2")>> >>),
           JObj(<< <<Plural(kind), JObj(<<>>)>> >>),
           \* a record whose second member has the wrong JSON type
           JObj(<< <<Plural(kind),
                     JObj(<< <<Fields(kind)[1], JStr("3")>>,
                             <<Fields(kind)[2], JNum(3)>> >>)>> >>) }
    ELSE { JObj(<< <<Plural(kind), JArr(<<SampleRec(kind, "2"),
                                          SampleRec(kind, "1")>>)>> >>),
           JObj(<< <<Plural(kind), JArr(<<>>)>> >>),
           \* a collection whose second element has the wrong JSON type
           JObj(<< <<Plural(kind),
                     JArr(<<SampleRec(kind, "3"), JStr("x")>>)>> >>) }

Bodies(kind) ==
    DataBodies(kind) \cup
    { JObj(<< <<"errors", JArr(<<ErrEntry("Validation failed",
                                          "Title is required"),
                                 ErrEntry("Later", "ignored")>>)>> >>),
      JObj(<< <<"errors", JArr(<<JObj(<< <<"message",
                                           JStr("Not found")>> >>)>>)>> >>),
      JObj(<< <<"errors", JArr(<<>>)>> >>),
      JText("Internal Server Error"),
      JText("") }

Responses(kind) ==
    { [type |-> "neterr", status |-> 0, body |-> NoBody],
      [type |-> "readerr", status |-> 0, body |-> NoBody] }
    \cup [type : {"http"}, status : Statuses, body : Bodies(kind)]

NoResp == [type |-> "none", status |-> 0, body |-> NoBody]

\* APIMessage appending the context even when it is empty
APIMessage_AlwaysContext(body) ==
    LET e == Unmarshal(body, "error", <<>>)
    IN  IF ~e.err /\ Len(e.v) > 0
        THEN e.v[1]["message"] \o ": " \o e.v[1]["context"]
        ELSE Render(body)

\* the message of an API error: Client.do, the status >= 400 branch
APIMessage(body) ==
    LET e == Unmarshal(body, "error", <<>>)
    IN  IF ~e.err /\ Len(e.v) > 0
        THEN e.v[1]["message"]
             \o (IF e.v[1]["context"] # ""
                 THEN ": " \o e.v[1]["context"] ELSE "")
        ELSE Render(body)

\* do taking every status that is not 2xx for an error
do_RedirectIsError(resp, kind, cur) ==
    IF resp.type = "neterr"
    THEN [err |-> Err("network", "httpClient.Do failed", 0), buf |-> cur]
    ELSE IF resp.type = "readerr"
    THEN [err |-> Err("network", "io.ReadAll failed", 0), buf |-> cur]
    ELSE IF resp.status >= 300
    THEN [err |-> Err("api", "API error (" \o ToString(resp.status) \o "): "
                             \o APIMessage(resp.body), resp.status),
          buf |-> cur]
    ELSE IF kind # "none"
    THEN LET d == Unmarshal(resp.body, kind, cur)
         IN  [err |-> IF d.err THEN Err("decode", "json.Unmarshal failed", 0)
                      ELSE NoErr,
              buf |-> d.v]
    ELSE [err |-> NoErr, buf |-> cur]

\* do dropping the error of json.Unmarshal
do_SwallowDecode(resp, kind, cur) ==
    IF resp.type = "neterr"
    THEN [err |-> Err("network", "httpClient.Do failed", 0), buf |-> cur]
    ELSE IF resp.type = "readerr"
    THEN [err |-> Err("network", "io.ReadAll failed", 0), buf |-> cur]
    ELSE IF resp.status >= 400
    THEN [err |-> Err("api", "API error (" \o ToString(resp.status) \o "): "
                             \o APIMessage(resp.body), resp.status),
          buf |-> cur]
    ELSE IF kind # "none"
    THEN [err |-> NoErr, buf |-> Unmarshal(resp.body, kind, cur).v]
    ELSE [err |-> NoErr, buf |-> cur]

\* Client.do from the return of Client.request on: the error it returns
\* and what the result sink holds afterwards.  kind "none" is a nil sink.
do(resp, kind, cur) ==
    IF resp.type = "neterr"
    THEN [err |-> Err("network", "httpClient.Do failed", 0), buf |-> cur]
    ELSE IF resp.type = "readerr"
    THEN [err |-> Err("network", "io.ReadAll failed", 0), buf |-> cur]
    ELSE IF resp.status >= 400
    THEN [err |-> Err("api", "API error (" \o ToString(resp.status) \o "): "
                             \o APIMessage(resp.body), resp.status),
          buf |-> cur]
    ELSE IF kind # "none"
    THEN LET d == Unmarshal(resp.body, kind, cur)
         IN  [err |-> IF d.err THEN Err("decode", "json.Unmarshal failed", 0)
                      ELSE NoErr,
              buf |-> d.v]
    ELSE [err |-> NoErr, buf |-> cur]

---------------------------------------------------------------------------
(* The operation in progress.                                              *)
(*   phase "idle"   no operation has been called yet                       *)
(*         "id"     a get-by-key waits for the answer to its id request    *)
(*         "slug"   a get-by-key waits for the answer to its slug request  *)
(*         "list"   a list operation waits for its answer                  *)
(*         "unwrap" create, update or GetNewsletter waits for its answer   *)
(*         "delete" a delete waits for its answer                          *)
(*         "site"   GetSite waits for its answer                           *)
(*         "reading" an image upload has minted its token and reads its    *)
(*                  source (os.Open and io.Copy, or io.Copy of the reader) *)
(*         "upload" an image upload waits for its answer                   *)
(*         "done"   the operation has returned `result`                    *)
(* The caller's thread runs one operation at a time: it calls the next     *)
(* one after it has taken the result of the previous one (Resume).         *)

\* identifiers and slugs the caller passes; all of them are accepted by
\* http.NewRequest as part of a URL
Keys == {"my-post"}

StatusArgs == {"", "all", "draft"}
Limits == -1..MaxLimit
Times == {"", "2025-02-01T12:00:00Z"}

\* the records the caller passes to create and update
ArgRecs(kind) ==
    { Zero(kind),
      [Zero(kind) EXCEPT ![Fields(kind)[2]] = "new"] }

\* key: the id, idOrSlug, file path or file name; when: publishAt; status,
\* limit: the arguments of a list; src: what the upload's source did when
\* it was read; name: the file name of the upload's multipart part; token:
\* the local `token` of an upload
NewCall(op, kind, phase, key) ==
    [op |-> op, kind |-> kind, phase |-> phase, key |-> key, when |-> "",
     status |-> "", limit |-> 0, src |-> "", name |-> "", token |-> NoToken]

NoResult == [state |-> "none", val |-> <<>>, err |-> NoErr]
Ok(val)  == [state |-> "ok", val |-> val, err |-> NoErr]
Fail(e)  == [state |-> "err", val |-> <<>>, err |-> e]

\* one Transport call: the request it sent (if any), the answer, the error
\* it returned, what its result sink held when it returned and the token
\* it minted (NoToken when it minted none)
Attempt(req, resp, e, sink) ==
    [req |-> req, sent |-> req.method # "", resp |-> resp, err |-> e,
     sink |-> sink, token |-> req.auth[2]]

\* a Transport call that minted a token and failed before it had a request
Unsent(e, token) == [Attempt(NoReq, NoResp, e, <<>>) EXCEPT !.token = token]

CanCall == call.phase = "idle"

\* the locals of a goroutine that has not called anything
IdleLocals ==
    [call |-> NewCall("", "", "idle", ""), inflight |-> NoReq,
     attempts |-> <<>>, buf |-> <<>>, result |-> NoResult]

\* the operation returns
Return(c, res, att, b) ==
    /\ call' = [c EXCEPT !.phase = "done"]
    /\ inflight' = NoReq
    /\ result' = res
    /\ attempts' = att
    /\ buf' = b
    /\ UNCHANGED <<client, clock, mints, parked>>

\* Send building the url in place, in the client's baseURL
Send_AppendsPath(c, req, att, b) ==
    /\ call' = c
    /\ inflight' = req
    /\ result' = NoResult
    /\ attempts' = att
    /\ buf' = b
    /\ baseURL' = req.url
    /\ UNCHANGED <<apiKey, httpClient, clock, mints, parked>>

\* the operation blocks in httpClient.Do
Send(c, req, att, b) ==
    /\ call' = c
    /\ inflight' = req
    /\ result' = NoResult
    /\ attempts' = att
    /\ buf' = b
    /\ UNCHANGED <<client, clock, mints, parked>>

\* c.do(...) called as the only or the last Transport call of an
\* operation: it fails before sending, or sends and waits in c.phase
CallDo(c, method, path, body, att) ==
    LET r == request(method, path, body)
    IN  IF r.err # NoErr
        THEN Return(c, Fail(r.err),
                    Append(att, Attempt(NoReq, NoResp, r.err, <<>>)), <<>>)
        ELSE Send(c, r.req, att, <<>>)

Wrap(kind, rec) == JObj(<< <<Plural(kind), JArr(<<Marshal(rec, kind)>>)>> >>)

\* the query the post and page paths carry
Formats(kind) == IF kind \in {"post", "page"} THEN "?formats=html" ELSE ""
WriteQuery(kind) ==
    CASE kind = "post" -> "?source=html&formats=html"
      [] kind = "page" -> "?formats=html"
      [] OTHER         -> ""

IDPath(kind, key)   == "/" \o Plural(kind) \o "/" \o key \o "/" \o Formats(kind)
\* the slug path without its "slug" segment
SlugPath_AsID(kind, key) == IDPath(kind, key)

SlugPath(kind, key) ==
    "/" \o Plural(kind) \o "/slug/" \o key \o "/" \o Formats(kind)

---------------------------------------------------------------------------
(* Update, and the compound operations built on get-by-key.                *)

\* UpdatePost / UpdatePage / UpdateTag up to httpClient.Do
Update(c, kind, id, rec, att) ==
    CallDo([c EXCEPT !.phase = "unwrap"], "PUT",
           "/" \o Plural(kind) \o "/" \o id \o "/" \o WriteQuery(kind),
           Wrap(kind, rec), att)

\* PublishRec leaving the date out of the record SchedulePost passes
PublishRec_NoDate(c, existing) ==
    LET base == [Zero(c.kind) EXCEPT !["updated_at"] = existing["updated_at"]]
    IN  CASE c.op \in {"PublishPost", "PublishPage"} ->
                [base EXCEPT !["status"] = "published"]
          [] c.op = "UnpublishPost" ->
                [base EXCEPT !["status"] = "draft"]
          [] c.op = "SchedulePost" ->
                [base EXCEPT !["status"] = "scheduled"]

\* the record PublishPost, UnpublishPost, SchedulePost and PublishPage
\* pass to the update
PublishRec(c, existing) ==
    LET base == [Zero(c.kind) EXCEPT !["updated_at"] = existing["updated_at"]]
    IN  CASE c.op \in {"PublishPost", "PublishPage"} ->
                [base EXCEPT !["status"] = "published"]
          [] c.op = "UnpublishPost" ->
                [base EXCEPT !["status"] = "draft"]
          [] c.op = "SchedulePost" ->
                [base EXCEPT !["status"] = "scheduled",
                             !["published_at"] = c.when]

IsGet(op) == op \in {"GetPost", "GetPage", "GetTag", "GetUser"}

\* Unwrap with the error of the create path
Unwrap_NoReturned(c, b) ==
    IF Len(b) = 0
    THEN Fail(Err("noreturn", "no " \o c.kind \o " returned", 0))
    ELSE Ok(<<b[1]>>)

\* the end of GetPost / GetPage / GetTag / GetUser: the emptiness check
Unwrap(c, b) ==
    IF Len(b) = 0
    THEN Fail(Err("notfound", c.kind \o " not found: " \o c.key, 0))
    ELSE Ok(<<b[1]>>)

\* AfterGet updating by the caller's key when the get has failed
AfterGet_IgnoreError(c, res, att, b) ==
    IF IsGet(c.op)
    THEN Return(c, res, att, b)
    ELSE IF res.state = "err"
    THEN Update(c, c.kind, c.key, PublishRec(c, Zero(c.kind)), att)
    ELSE Update(c, c.kind, res.val[1]["id"], PublishRec(c, res.val[1]), att)

\* AfterGet addressing the update by the caller's idOrSlug
AfterGet_ByKey(c, res, att, b) ==
    IF IsGet(c.op) \/ res.state = "err"
    THEN Return(c, res, att, b)
    ELSE Update(c, c.kind, c.key, PublishRec(c, res.val[1]), att)

\* AfterGet refusing a transition to the status the record already has
AfterGet_Validates(c, res, att, b) ==
    IF IsGet(c.op) \/ res.state = "err"
    THEN Return(c, res, att, b)
    ELSE IF res.val[1]["status"] = PublishRec(c, res.val[1])["status"]
    THEN Return(c, Fail(Err("validation", "illegal transition", 0)), att, b)
    ELSE Update(c, c.kind, res.val[1]["id"], PublishRec(c, res.val[1]), att)

\* get-by-key has returned `res` to the operation that called it
AfterGet(c, res, att, b) ==
    IF IsGet(c.op) \/ res.state = "err"
    THEN Return(c, res, att, b)
    ELSE Update(c, c.kind, res.val[1]["id"], PublishRec(c, res.val[1]), att)

\* SlugAttempt sending the token of the id request again
SlugAttempt_ReusesToken(c, att, b) ==
    LET r == request("GET", SlugPath(c.kind, c.key), NoBody)
    IN  IF r.err # NoErr
        THEN AfterGet(c, Fail(r.err),
                      Append(att, Attempt(NoReq, NoResp, r.err, b)), b)
        ELSE Send([c EXCEPT !.phase = "slug"],
                  [r.req EXCEPT !.auth = att[1].req.auth], att, b)

\* the second c.do of a get-by-key, on the slug path, after the first
\* one failed: it shares the result buffer of the first
SlugAttempt(c, att, b) ==
    LET r == request("GET", SlugPath(c.kind, c.key), NoBody)
    IN  IF r.err # NoErr
        THEN AfterGet(c, Fail(r.err),
                      Append(att, Attempt(NoReq, NoResp, r.err, b)), b)
        ELSE Send([c EXCEPT !.phase = "slug"], r.req, att, b)

\* GetPost / GetPage / GetTag / GetUser from entry to the first block
GetByKey(c) ==
    /\ CanCall
    /\ LET r == request("GET", IDPath(c.kind, c.key), NoBody)
       IN  IF r.err # NoErr
           THEN SlugAttempt(c, <<Attempt(NoReq, NoResp, r.err, <<>>)>>, <<>>)
           ELSE Send([c EXCEPT !.phase = "id"], r.req, <<>>, <<>>)

\* RecvID without the fallback: the first error is returned
RecvID_NoFallback ==
    /\ call.phase = "id"
    /\ \E resp \in Responses(call.kind) :
          LET d   == do(resp, call.kind, buf)
              att == Append(attempts, Attempt(inflight, resp, d.err, d.buf))
          IN  IF d.err # NoErr
              THEN AfterGet(call, Fail(d.err), att, d.buf)
              ELSE AfterGet(call, Unwrap(call, d.buf), att, d.buf)

\* RecvID falling back to the slug path on an empty collection as well
RecvID_FallbackOnEmpty ==
    /\ call.phase = "id"
    /\ \E resp \in Responses(call.kind) :
          LET d   == do(resp, call.kind, buf)
              att == Append(attempts, Attempt(inflight, resp, d.err, d.buf))
          IN  IF d.err # NoErr \/ Len(d.buf) = 0
              THEN SlugAttempt(call, att, d.buf)
              ELSE AfterGet(call, Unwrap(call, d.buf), att, d.buf)

\* the answer to the id request arrives
RecvID ==
    /\ call.phase = "id"
    /\ \E resp \in Responses(call.kind) :
          LET d   == do(resp, call.kind, buf)
              att == Append(attempts, Attempt(inflight, resp, d.err, d.buf))
          IN  IF d.err # NoErr
              THEN SlugAttempt(call, att, d.buf)
              ELSE AfterGet(call, Unwrap(call, d.buf), att, d.buf)

\* RecvSlug sending the slug request once more after a network error
RecvSlug_RetryOnce ==
    /\ call.phase = "slug"
    /\ \E resp \in Responses(call.kind) :
          LET d   == do(resp, call.kind, buf)
              att == Append(attempts, Attempt(inflight, resp, d.err, d.buf))
          IN  IF d.err.kind = "network" /\ Len(att) < 3
              THEN Send(call, inflight, att, d.buf)
              ELSE IF d.err # NoErr
              THEN AfterGet(call, Fail(d.err), att, d.buf)
              ELSE AfterGet(call, Unwrap(call, d.buf), att, d.buf)

\* the answer to the slug request arrives
RecvSlug ==
    /\ call.phase = "slug"
    /\ \E resp \in Responses(call.kind) :
          LET d   == do(resp, call.kind, buf)
              att == Append(attempts, Attempt(inflight, resp, d.err, d.buf))
          IN  IF d.err # NoErr
              THEN AfterGet(call, Fail(d.err), att, d.buf)
              ELSE AfterGet(call, Unwrap(call, d.buf), att, d.buf)

GetPost == \E key \in Keys : GetByKey(NewCall("GetPost", "post", "id", key))
GetPage == \E key \in Keys : GetByKey(NewCall("GetPage", "page", "id", key))
GetTag  == \E key \in Keys : GetByKey(NewCall("GetTag", "tag", "id", key))
GetUser == \E key \in Keys : GetByKey(NewCall("GetUser", "user", "id", key))

PublishPost ==
    \E key \in Keys : GetByKey(NewCall("PublishPost", "post", "id", key))
UnpublishPost ==
    \E key \in Keys : GetByKey(NewCall("UnpublishPost", "post", "id", key))
SchedulePost ==
    \E key \in Keys, publishAt \in Times :
        GetByKey([NewCall("SchedulePost", "post", "id", key)
                     EXCEPT !.when = publishAt])
PublishPage ==
    \E key \in Keys : GetByKey(NewCall("PublishPage", "page", "id", key))

---------------------------------------------------------------------------
(* The single-request operations.                                          *)

\* ListPath taking a limit of 0 for a limit
ListPath_ZeroLimit(base, status, limit) ==
    base \o (IF status # "" /\ status # "all"
             THEN "&filter=status:" \o status ELSE "")
         \o (IF limit >= 0 THEN "&limit=" \o ToString(limit) ELSE "")

\* the path of ListPosts, ListPages and ListTags (status "" for ListTags)
ListPath(base, status, limit) ==
    base \o (IF status # "" /\ status # "all"
             THEN "&filter=status:" \o status ELSE "")
         \o (IF limit > 0 THEN "&limit=" \o ToString(limit) ELSE "")

\* ListPosts .. ListWebhooks from entry to the block in httpClient.Do
List(c, path) ==
    /\ CanCall
    /\ CallDo(c, "GET", path, NoBody, <<>>)

ListCall(op, kind, status, limit) ==
    [NewCall(op, kind, "list", "") EXCEPT !.status = status, !.limit = limit]

ListPosts ==
    \E status \in StatusArgs, limit \in Limits :
        List(ListCall("ListPosts", "post", status, limit),
             ListPath("/posts/?formats=html", status, limit))
ListPages ==
    \E status \in StatusArgs, limit \in Limits :
        List(ListCall("ListPages", "page", status, limit),
             ListPath("/pages/?formats=html", status, limit))
ListTags ==
    \E limit \in Limits :
        List(ListCall("ListTags", "tag", "", limit),
             ListPath("/tags/?include=count.posts", "", limit))
ListUsers       == List(NewCall("ListUsers", "user", "list", ""), "/users/")
ListNewsletters ==
    List(NewCall("ListNewsletters", "newsletter", "list", ""), "/newsletters/")
ListWebhooks    ==
    List(NewCall("ListWebhooks", "webhook", "list", ""), "/webhooks/")

\* GetSettings: the whole SettingsResponse is returned, as by a list
GetSettings == List(NewCall("GetSettings", "setting", "list", ""), "/settings/")

\* GetSite up to httpClient.Do
GetSite ==
    /\ CanCall
    /\ CallDo(NewCall("GetSite", "site", "site", ""), "GET", "/site/",
              NoBody, <<>>)

\* the answer to GetSite: &resp.Site is returned, whatever it holds
RecvSite ==
    /\ call.phase = "site"
    /\ \E resp \in Responses(call.kind) :
          LET d   == do(resp, call.kind, buf)
              att == Append(attempts, Attempt(inflight, resp, d.err, d.buf))
          IN  Return(call,
                     IF d.err # NoErr THEN Fail(d.err)
                     ELSE Ok(<<IF d.buf = <<>> THEN Zero(call.kind)
                               ELSE d.buf[1]>>),
                     att, d.buf)

\* RecvList returning what was decoded when the decoding has failed
RecvList_SwallowDecode ==
    /\ call.phase = "list"
    /\ \E resp \in Responses(call.kind) :
          LET d   == do(resp, call.kind, buf)
              att == Append(attempts, Attempt(inflight, resp, d.err, d.buf))
          IN  Return(call,
                     IF d.err # NoErr /\ d.err.kind # "decode"
                     THEN Fail(d.err) ELSE Ok(d.buf),
                     att, d.buf)

\* the answer to a list request: the whole wrapper is returned
RecvList ==
    /\ call.phase = "list"
    /\ \E resp \in Responses(call.kind) :
          LET d   == do(resp, call.kind, buf)
              att == Append(attempts, Attempt(inflight, resp, d.err, d.buf))
          IN  Return(call, IF d.err # NoErr THEN Fail(d.err) ELSE Ok(d.buf),
                     att, d.buf)

\* GetNewsletter: one request addressed by id
GetNewsletter ==
    /\ CanCall
    /\ \E id \in Keys :
          CallDo(NewCall("GetNewsletter", "newsletter", "unwrap", id), "GET",
                 "/newsletters/" \o id \o "/", NoBody, <<>>)

\* CreatePost / CreatePage / CreateTag / CreateWebhook up to httpClient.Do
Create(op, kind) ==
    /\ CanCall
    /\ \E rec \in ArgRecs(kind) :
          CallDo(NewCall(op, kind, "unwrap", ""), "POST",
                 "/" \o Plural(kind) \o "/" \o WriteQuery(kind),
                 Wrap(kind, rec), <<>>)

CreatePost    == Create("CreatePost", "post")
CreatePage    == Create("CreatePage", "page")
CreateTag     == Create("CreateTag", "tag")
CreateWebhook == Create("CreateWebhook", "webhook")

UpdateCall(op, kind) ==
    /\ CanCall
    /\ \E id \in Keys, rec \in ArgRecs(kind) :
          Update(NewCall(op, kind, "unwrap", id), kind, id, rec, <<>>)

UpdatePost == UpdateCall("UpdatePost", "post")
UpdatePage == UpdateCall("UpdatePage", "page")
UpdateTag  == UpdateCall("UpdateTag", "tag")

\* the error of an empty collection after a create, an update or
\* GetNewsletter
EmptyErr(c) ==
    IF c.op = "GetNewsletter"
    THEN Err("notfound", "newsletter not found: " \o c.key, 0)
    ELSE Err("noreturn", "no " \o c.kind \o " returned", 0)

\* RecvUnwrap returning the last element of the collection
RecvUnwrap_Last ==
    /\ call.phase = "unwrap"
    /\ \E resp \in Responses(call.kind) :
          LET d   == do(resp, call.kind, buf)
              att == Append(attempts, Attempt(inflight, resp, d.err, d.buf))
          IN  Return(call,
                     IF d.err # NoErr THEN Fail(d.err)
                     ELSE IF Len(d.buf) = 0 THEN Fail(EmptyErr(call))
                     ELSE Ok(<<d.buf[Len(d.buf)]>>),
                     att, d.buf)

\* the answer to a create, an update (of its own or of a publish) or
\* GetNewsletter: the first element of the collection is returned
RecvUnwrap ==
    /\ call.phase = "unwrap"
    /\ \E resp \in Responses(call.kind) :
          LET d   == do(resp, call.kind, buf)
              att == Append(attempts, Attempt(inflight, resp, d.err, d.buf))
          IN  Return(call,
                     IF d.err # NoErr THEN Fail(d.err)
                     ELSE IF Len(d.buf) = 0 THEN Fail(EmptyErr(call))
                     ELSE Ok(<<d.buf[1]>>),
                     att, d.buf)

\* DeletePost / DeletePage / DeleteTag / DeleteWebhook
Delete(op, kind) ==
    /\ CanCall
    /\ \E id \in Keys :
          CallDo(NewCall(op, kind, "delete", id), "DELETE",
                 "/" \o Plural(kind) \o "/" \o id \o "/", NoBody, <<>>)

DeletePost    == Delete("DeletePost", "post")
DeletePage    == Delete("DeletePage", "page")
DeleteTag     == Delete("DeleteTag", "tag")
DeleteWebhook == Delete("DeleteWebhook", "webhook")

\* RecvDelete decoding the body into a collection of the deleted kind
RecvDelete_Decodes ==
    /\ call.phase = "delete"
    /\ \E resp \in Responses(call.kind) :
          LET d   == do(resp, call.kind, buf)
              att == Append(attempts, Attempt(inflight, resp, d.err, d.buf))
          IN  Return(call, IF d.err # NoErr THEN Fail(d.err) ELSE Ok(<<>>),
                     att, d.buf)

\* the answer to a delete: there is no result sink
RecvDelete ==
    /\ call.phase = "delete"
    /\ \E resp \in Responses(call.kind) :
          LET d   == do(resp, "none", buf)
              att == Append(attempts, Attempt(inflight, resp, d.err, d.buf))
          IN  Return(call, IF d.err # NoErr THEN Fail(d.err) ELSE Ok(<<>>),
                     att, d.buf)

---------------------------------------------------------------------------
(* Image upload: its own copy of the request and response handling.        *)

\* what reading the local file or the io.Reader can do
Sources == {"ok", "openfail", "readfail"}

\* the paths UploadImage is given, as sequences of path elements and "/"
FilePaths == { <<"a.png">>, <<"dir", "/", "a.png">> }

\* the file names UploadImageReader is given
FileNames == {"a.png", "dir/a.png"}

RECURSIVE StripSeparators(_)
StripSeparators(path) ==
    IF path # <<>> /\ path[Len(path)] = "/"
    THEN StripSeparators(SubSeq(path, 1, Len(path) - 1))
    ELSE path

\* filepath.Base: the last element of the path, trailing separators
\* removed first; "." for the empty path, "/" for a path of separators
Base(path) ==
    LET p == StripSeparators(path)
        i == IF \E k \in 1..Len(p) : p[k] = "/"
             THEN CHOOSE k \in 1..Len(p) :
                      p[k] = "/" /\ \A m \in (k + 1)..Len(p) : p[m] # "/"
             ELSE 0
    IN  IF path = <<>> THEN "."
        ELSE IF p = <<>> THEN "/"
        ELSE Str(SubSeq(p, i + 1, Len(p)))

\* the upload waits for its source; nothing is in flight
AwaitSource(c) ==
    /\ call' = c
    /\ inflight' = NoReq
    /\ result' = NoResult
    /\ attempts' = <<>>
    /\ buf' = <<>>
    /\ UNCHANGED <<client, clock, mints, parked>>

\* Upload opening the file before minting the token
Upload_OpenFirst(op, key, name) ==
    LET tok == GenerateToken(apiKey)
        c   == [NewCall(op, "image", "reading", key) EXCEPT !.name = name]
    IN  \E src \in Sources :
          IF src = "openfail"
          THEN LET e == Err("io", "os.Open failed", 0)
               IN  Return([c EXCEPT !.src = src], Fail(e),
                          <<Attempt(NoReq, NoResp, e, <<>>)>>, <<>>)
          ELSE IF tok.err # ""
          THEN LET e == Err("token", "generating token: " \o tok.err, 0)
               IN  Return(c, Fail(e), <<Attempt(NoReq, NoResp, e, <<>>)>>, <<>>)
          ELSE AwaitSource([c EXCEPT !.token = tok.token])

\* UploadImage / UploadImageReader from entry to the read of the source:
\* the token is minted first and kept in a local
Upload(op, key, name) ==
    LET tok == GenerateToken(apiKey)
        c   == [NewCall(op, "image", "reading", key) EXCEPT !.name = name]
    IN  IF tok.err # ""
        THEN LET e == Err("token", "generating token: " \o tok.err, 0)
             IN  Return(c, Fail(e), <<Attempt(NoReq, NoResp, e, <<>>)>>, <<>>)
        ELSE AwaitSource([c EXCEPT !.token = tok.token])

\* the part is named filepath.Base(filePath)
UploadImage ==
    /\ CanCall
    /\ \E filePath \in FilePaths :
          Upload("UploadImage", Str(filePath), Base(filePath))

\* the part is named as the caller says
UploadImageReader ==
    /\ CanCall
    /\ \E filename \in FileNames :
          Upload("UploadImageReader", filename, filename)

\* ReadSource going on with an empty body when the file cannot be opened
ReadSource_IgnoreOpen ==
    /\ call.phase = "reading"
    /\ \E src \in IF call.op = "UploadImage" THEN Sources
                  ELSE Sources \ {"openfail"} :
          LET c == [call EXCEPT !.src = src]
          IN  IF src = "readfail"
              THEN LET e == Err("io", "io.Copy failed", 0)
                   IN  Return(c, Fail(e), <<Unsent(e, call.token)>>, <<>>)
              ELSE Send([c EXCEPT !.phase = "upload"],
                        [method |-> "POST",
                         url    |-> baseURL \o "/images/upload/",
                         body   |-> [t |-> "multipart", s |-> call.name],
                         auth   |-> <<"Ghost ", call.token>>,
                         ctype  |-> "multipart/form-data"],
                        <<>>, <<>>)

\* the source has been read, or has failed: os.Open and io.Copy in
\* UploadImage, io.Copy of the reader in UploadImageReader; then the
\* request is built with the token minted at entry and handed to
\* httpClient.Do
ReadSource ==
    /\ call.phase = "reading"
    /\ \E src \in IF call.op = "UploadImage" THEN Sources
                  ELSE Sources \ {"openfail"} :
          LET c == [call EXCEPT !.src = src]
          IN  IF src = "openfail"
              THEN LET e == Err("io", "os.Open failed", 0)
                   IN  Return(c, Fail(e), <<Unsent(e, call.token)>>, <<>>)
              ELSE IF src = "readfail"
              THEN LET e == Err("io", "io.Copy failed", 0)
                   IN  Return(c, Fail(e), <<Unsent(e, call.token)>>, <<>>)
              ELSE Send([c EXCEPT !.phase = "upload"],
                        [method |-> "POST",
                         url    |-> baseURL \o "/images/upload/",
                         body   |-> [t |-> "multipart", s |-> call.name],
                         auth   |-> <<"Ghost ", call.token>>,
                         ctype  |-> "multipart/form-data"],
                        <<>>, <<>>)

\* RecvUpload taking a status of 400 for a success
RecvUpload_Over400 ==
    /\ call.phase = "upload"
    /\ \E resp \in Responses("image") :
          LET d == Unmarshal(resp.body, "image", <<>>)
              e == IF resp.type = "neterr"
                   THEN Err("network", "httpClient.Do failed", 0)
                   ELSE IF resp.type = "readerr"
                   THEN Err("network", "io.ReadAll failed", 0)
                   ELSE IF resp.status > 400
                   THEN Err("upload", "upload failed ("
                                \o ToString(resp.status) \o "): "
                                \o Render(resp.body), resp.status)
                   ELSE IF d.err
                   THEN Err("decode", "json.Unmarshal failed", 0)
                   ELSE NoErr
          IN  Return(call, IF e # NoErr THEN Fail(e) ELSE Ok(d.v),
                     Append(attempts, Attempt(inflight, resp, e,
                                              IF e = NoErr THEN d.v ELSE <<>>)),
                     IF e = NoErr THEN d.v ELSE <<>>)

\* the answer to an upload
RecvUpload ==
    /\ call.phase = "upload"
    /\ \E resp \in Responses("image") :
          LET d == Unmarshal(resp.body, "image", <<>>)
              e == IF resp.type = "neterr"
                   THEN Err("network", "httpClient.Do failed", 0)
                   ELSE IF resp.type = "readerr"
                   THEN Err("network", "io.ReadAll failed", 0)
                   ELSE IF resp.status >= 400
                   THEN Err("upload", "upload failed ("
                                \o ToString(resp.status) \o "): "
                                \o Render(resp.body), resp.status)
                   ELSE IF d.err
                   THEN Err("decode", "json.Unmarshal failed", 0)
                   ELSE NoErr
          IN  Return(call, IF e # NoErr THEN Fail(e) ELSE Ok(d.v),
                     Append(attempts, Attempt(inflight, resp, e,
                                              IF e = NoErr THEN d.v ELSE <<>>)),
                     IF e = NoErr THEN d.v ELSE <<>>)

---------------------------------------------------------------------------
(* The clock, construction and the specification.                          *)

\* the caller takes the result; the operation's locals are gone
Resume ==
    /\ call.phase = "done"
    /\ call' = NewCall("", "", "idle", "")
    /\ inflight' = NoReq
    /\ attempts' = <<>>
    /\ buf' = <<>>
    /\ result' = NoResult
    /\ UNCHANGED <<client, clock, mints, parked>>

\* time passes; "done" is the instant of the return, not a stretch of time
Tick ==
    /\ call.phase # "done"
    /\ clock < MaxClock
    /\ clock' = clock + 1
    /\ UNCHANGED <<client, call, inflight, attempts, buf, result, mints, parked>>

\* TrimSuffix removing every trailing "/" (strings.TrimRight)
TrimSuffix_All(cs) ==
    LET k == CHOOSE k \in 0..Len(cs) :
                 /\ \A i \in (Len(cs) - k + 1)..Len(cs) : cs[i] = "/"
                 /\ (k < Len(cs) => cs[Len(cs) - k] # "/")
    IN  SubSeq(cs, 1, Len(cs) - k)

\* strings.TrimSuffix(url, "/")
TrimSuffix(cs) ==
    IF cs # <<>> /\ cs[Len(cs)] = "/" THEN SubSeq(cs, 1, Len(cs) - 1) ELSE cs

\* NewClient: the client's three fields
NewClient(url, key, custom) ==
    [baseURL    |-> Str(TrimSuffix(url)) \o "/ghost/api/admin",
     apiKey     |-> key,
     httpClient |-> IF custom THEN "custom" ELSE "default"]

SiteURLs == { <<"h", "/">> }

\* credentials: one well-formed, the others malformed in each way
\* ParseAPIKey rejects
APIKeys ==
    { <<"k", ":", "0", "a">>,
      <<"k", "0", "a">>,
      <<"k", ":", "0", ":", "a">>,
      <<":", "0", "a">>,
      <<"k", ":">>,
      <<"k", ":", "0">>,
      <<"k", ":", "z", "a">> }

Init ==
    /\ \E url \in SiteURLs, key \in APIKeys, custom \in {FALSE} :
          LET c == NewClient(url, key, custom)
          IN  /\ baseURL = c.baseURL
              /\ apiKey = c.apiKey
              /\ httpClient = c.httpClient
    /\ clock = 0
    /\ call = NewCall("", "", "idle", "")
    /\ inflight = NoReq
    /\ attempts = <<>>
    /\ buf = <<>>
    /\ result = NoResult
    /\ mints = <<>>
    /\ parked = IdleLocals

Next ==
    \/ ListPosts \/ GetPost \/ CreatePost \/ UpdatePost \/ DeletePost
    \/ PublishPost \/ UnpublishPost \/ SchedulePost
    \/ ListPages \/ GetPage \/ CreatePage \/ UpdatePage \/ DeletePage
    \/ PublishPage
    \/ ListTags \/ GetTag \/ CreateTag \/ UpdateTag \/ DeleteTag
    \/ ListUsers \/ GetUser
    \/ ListNewsletters \/ GetNewsletter
    \/ ListWebhooks \/ CreateWebhook \/ DeleteWebhook
    \/ GetSite \/ GetSettings
    \/ UploadImage \/ UploadImageReader \/ ReadSource
    \/ RecvID \/ RecvSlug \/ RecvList \/ RecvUnwrap \/ RecvDelete \/ RecvSite
    \/ RecvUpload
    \/ Resume \/ Tick

Spec == Init /\ [][Next]_vars

\* httpClient.Do returns: a response or a network error
Receive ==
    \/ RecvID \/ RecvSlug \/ RecvList \/ RecvUnwrap \/ RecvDelete \/ RecvSite
    \/ RecvUpload

\* the answers of the peer that take each way through the handlers: a
\* transport failure, each body that holds what was asked for (whole,
\* empty, decoding in part) with status 200, and an error with its envelope
LiveResponses(kind) ==
    { [type |-> "neterr", status |-> 0, body |-> NoBody],
      [type |-> "http", status |-> 422,
       body |-> JObj(<< <<"errors", JArr(<<JObj(<< <<"message",
                                           JStr("Not found")>> >>)>>)>> >>)] }
    \cup [type : {"http"}, status : {200}, body : DataBodies(kind)]

\* httpClient.Do returns one of LiveResponses
LiveReceive ==
    Receive /\ attempts'[Len(attempts')].resp \in LiveResponses(call.kind)

LiveNext ==
    \/ ListPosts \/ GetPost \/ CreatePost \/ UpdatePost \/ DeletePost
    \/ PublishPost \/ UnpublishPost \/ SchedulePost
    \/ ListPages \/ GetPage \/ CreatePage \/ UpdatePage \/ DeletePage
    \/ PublishPage
    \/ ListTags \/ GetTag \/ CreateTag \/ UpdateTag \/ DeleteTag
    \/ ListUsers \/ GetUser
    \/ ListNewsletters \/ GetNewsletter
    \/ ListWebhooks \/ CreateWebhook \/ DeleteWebhook
    \/ GetSite \/ GetSettings
    \/ UploadImage \/ UploadImageReader \/ ReadSource
    \/ LiveReceive
    \/ Resume \/ Tick

\* the operations when every request that was sent is answered.  An upload
\* opens and copies its source in the same call, right after minting the
\* token, so the read of the source goes on as well.
LiveSpec ==
    /\ Init /\ [][LiveNext]_vars
    /\ WF_vars(LiveReceive)
    /\ WF_vars(ReadSource)

---------------------------------------------------------------------------
(* Two goroutines calling operations on the same client.  Each has its own *)
(* locals (the operation's arguments, its request, its result buffer); the *)
(* client's three fields are what they share.  The scheduler runs one of   *)
(* them at a time and may switch between any two steps.                    *)

\* Switch keeping the result buffer where it is: one buffer for both
Switch_SharedBuf ==
    /\ parked' = [call |-> call, inflight |-> inflight, attempts |-> attempts,
                  buf |-> <<>>, result |-> result]
    /\ call' = parked.call
    /\ inflight' = parked.inflight
    /\ attempts' = parked.attempts
    /\ result' = parked.result
    /\ UNCHANGED <<client, clock, mints, buf>>

\* the scheduler takes the other goroutine
Switch ==
    /\ parked' = [call |-> call, inflight |-> inflight, attempts |-> attempts,
                  buf |-> buf, result |-> result]
    /\ call' = parked.call
    /\ inflight' = parked.inflight
    /\ attempts' = parked.attempts
    /\ buf' = parked.buf
    /\ result' = parked.result
    /\ UNCHANGED <<client, clock, mints>>

\* the answers of the peer while two operations are in progress: a
\* transport failure, a collection, a collection that decodes in part, a
\* body without the collection, and an error with its envelope
StubResponses(kind) ==
    { [type |-> "neterr", status |-> 0, body |-> NoBody],
      [type |-> "http", status |-> 200,
       body |-> JObj(<< <<Plural(kind), JArr(<<SampleRec(kind, "2"),
                                               SampleRec(kind, "1")>>)>> >>)],
      [type |-> "http", status |-> 200,
       body |-> JObj(<< <<Plural(kind), JArr(<<SampleRec(kind, "3"),
                                               JStr("x")>>)>> >>)],
      [type |-> "http", status |-> 200,
       body |-> JObj(<< <<"errors", JArr(<<>>)>> >>)],
      [type |-> "http", status |-> 422,
       body |-> JObj(<< <<"errors", JArr(<<JObj(<< <<"message",
                                           JStr("Not found")>> >>)>>)>> >>)] }

\* the last answer received is one of StubResponses
Stubbed == attempts[Len(attempts)].resp \in StubResponses(call.kind)

ConcRecvID     == RecvID /\ Stubbed'
ConcRecvSlug   == RecvSlug /\ Stubbed'
ConcRecvUnwrap == RecvUnwrap /\ Stubbed'

ConcNext ==
    \/ GetPost \/ PublishPost
    \/ ConcRecvID \/ ConcRecvSlug \/ ConcRecvUnwrap
    \/ Switch

ConcSpec == Init /\ [][ConcNext]_vars

---------------------------------------------------------------------------
(* The functions of auth.go called directly, without a client.             *)

\* the characters of the credentials passed to ParseAPIKey: a letter that
\* is not a hexadecimal digit, the separator and three hexadecimal digits
KeyChars == {"k", ":", "0", "a", "F"}

\* every credential of at most MaxKeyLen characters
KeyStrings == UNION {[1..n -> KeyChars] : n \in 0..MaxKeyLen}

\* the credentials passed to the token functions: two well-formed ones
\* and a malformed one
TokenKeys == { <<"k", ":", "0", "a">>, <<"a", ":", "a", "0">>, <<"k", ":", "z", "a">> }

\* no client has been constructed
AuthInit ==
    /\ baseURL = ""
    /\ apiKey = <<>>
    /\ httpClient = "none"
    /\ clock = 0
    /\ call = NewCall("", "", "idle", "")
    /\ inflight = NoReq
    /\ attempts = <<>>
    /\ buf = <<>>
    /\ result = NoResult
    /\ mints = <<>>
    /\ parked = IdleLocals

\* ParseAPIKey(key) called and returned: the three values it returns
CallParseAPIKey ==
    /\ CanCall
    /\ \E key \in KeyStrings :
          LET k == ParseAPIKey(key)
          IN  /\ call' = NewCall("ParseAPIKey", "", "done", key)
              /\ result' = [state |-> IF k.err = "" THEN "ok" ELSE "err",
                            val   |-> <<[id |-> k.id, secret |-> k.secret,
                                         isNil |-> k.isNil]>>,
                            err   |-> IF k.err = "" THEN NoErr
                                      ELSE Err("parse", k.err, 0)]
    /\ UNCHANGED <<client, clock, inflight, attempts, buf, mints, parked>>

\* one direct call of a token function, as `mints` keeps it: `at` is the
\* wall clock at the time of the call
Mint(fn, key, now, out) ==
    [fn |-> fn, key |-> key, now |-> now, at |-> clock,
     token |-> out.token, err |-> out.err]

\* GenerateToken(key) called and returned
CallGenerateToken ==
    /\ Len(mints) < MaxMints
    /\ \E key \in TokenKeys :
          mints' = Append(mints, Mint("GenerateToken", key, clock,
                                      GenerateToken(key)))
    /\ UNCHANGED <<client, clock, call, inflight, attempts, buf, result, parked>>

\* GenerateTokenWithTime(key, now) called and returned
CallGenerateTokenWithTime ==
    /\ Len(mints) < MaxMints
    /\ \E key \in TokenKeys, now \in 0..MaxClock :
          mints' = Append(mints, Mint("GenerateTokenWithTime", key, now,
                                      GenerateTokenWithTime(key, now)))
    /\ UNCHANGED <<client, clock, call, inflight, attempts, buf, result, parked>>

\* the site URLs passed to NewClient: every string of at most MaxURLLen
\* characters over a letter and the slash
URLChars == {"h", "/"}
URLStrings == UNION {[1..n -> URLChars] : n \in 0..MaxURLLen}

\* NewClient(url, apiKey) or NewClient(url, apiKey, WithHTTPClient(...))
\* called and returned: the client is in place
CallNewClient ==
    /\ CanCall
    /\ \E url \in URLStrings, key \in APIKeys, custom \in BOOLEAN :
          LET c == NewClient(url, key, custom)
          IN  /\ baseURL' = c.baseURL
              /\ apiKey' = c.apiKey
              /\ httpClient' = c.httpClient
              /\ call' = NewCall("NewClient", "", "done", url)
              /\ result' = Ok(<<c>>)
    /\ UNCHANGED <<clock, inflight, attempts, buf, mints, parked>>

NewClientNext == CallNewClient \/ Resume

NewClientSpec == AuthInit /\ [][NewClientNext]_vars

\* Pagination (types.go): four ints and two *int, a nil pointer being <<>>
\* and a pointer to n being <<n>>
PageNumbers == 0..MaxPage

PagePointers == {<<>>} \cup {<<n>> : n \in PageNumbers}

Paginations ==
    [page : PageNumbers, limit : PageNumbers, pages : PageNumbers,
     total : PageNumbers, next : PagePointers, prev : PagePointers]

\* encoding/json of a *int without omitempty: null for nil
MarshalPointer(ptr) == IF ptr = <<>> THEN JNull ELSE JNum(ptr[1])

\* json.Marshal of a Pagination whose next had the omitempty option
MarshalPagination_OmitEmpty(p) ==
    JObj(<< <<"page", JNum(p.page)>>, <<"limit", JNum(p.limit)>>,
            <<"pages", JNum(p.pages)>>, <<"total", JNum(p.total)>> >>
         \o (IF p.next = <<>> THEN << >>
             ELSE << <<"next", MarshalPointer(p.next)>> >>)
         \o << <<"prev", MarshalPointer(p.prev)>> >>)

\* json.Marshal of a Pagination: every field, in declaration order
MarshalPagination(p) ==
    JObj(<< <<"page", JNum(p.page)>>, <<"limit", JNum(p.limit)>>,
            <<"pages", JNum(p.pages)>>, <<"total", JNum(p.total)>>,
            <<"next", MarshalPointer(p.next)>>,
            <<"prev", MarshalPointer(p.prev)>> >>)

\* json.Unmarshal of one member into the Pagination d: null leaves an int
\* and makes a pointer nil, a number sets either, an unknown key is
\* skipped.  Any other value is a type error that leaves an int and a
\* pointer already set; a nil pointer has been allocated by then (the
\* decoder follows the pointer before it looks at the value) and points
\* to 0
DecodeMember(d, name, j) ==
    IF name \notin {"page", "limit", "pages", "total", "next", "prev"}
    THEN [v |-> d, err |-> FALSE]
    ELSE IF j.t = "num"
    THEN [v   |-> [d EXCEPT ![name] = IF name \in {"next", "prev"}
                                      THEN <<j.n>> ELSE j.n],
          err |-> FALSE]
    ELSE IF j.t = "null"
    THEN [v   |-> IF name \in {"next", "prev"}
                  THEN [d EXCEPT ![name] = <<>>] ELSE d,
          err |-> FALSE]
    ELSE [v   |-> IF name \in {"next", "prev"} /\ d[name] = <<>>
                  THEN [d EXCEPT ![name] = <<0>>] ELSE d,
          err |-> TRUE]

RECURSIVE DecodePagination(_, _, _)
DecodePagination(pairs, i, d) ==
    IF i > Len(pairs) THEN [v |-> d, err |-> FALSE]
    ELSE LET m    == DecodeMember(d, pairs[i][1], pairs[i][2])
             rest == DecodePagination(pairs, i + 1, m.v)
         IN  [v |-> rest.v, err |-> m.err \/ rest.err]

\* json.Unmarshal(data, &dest) for a Pagination dest
UnmarshalPagination(j, dest) ==
    IF j.t = "obj" THEN DecodePagination(j.p, 1, dest)
    ELSE IF j.t = "null" THEN [v |-> dest, err |-> FALSE]
    ELSE [v |-> dest, err |-> TRUE]

\* the variables a test decodes into: a fresh Pagination and a used one
Destinations ==
    { [page |-> 0, limit |-> 0, pages |-> 0, total |-> 0,
       next |-> <<>>, prev |-> <<>>],
      [page |-> 1, limit |-> 1, pages |-> 1, total |-> 1,
       next |-> <<1>>, prev |-> <<0>>] }

\* data, err := json.Marshal(original)
CallMarshalPagination ==
    /\ CanCall
    /\ \E original \in Paginations :
          /\ call' = NewCall("Marshal", "pagination", "marshalled", "")
          /\ buf' = <<original>>
          /\ result' = Ok(<<MarshalPagination(original)>>)
    /\ UNCHANGED <<client, clock, inflight, attempts, mints, parked>>

\* err = json.Unmarshal(data, &decoded)
CallUnmarshalPagination ==
    /\ call.phase = "marshalled"
    /\ \E decoded \in Destinations :
          LET d == UnmarshalPagination(result.val[1], decoded)
          IN  /\ call' = [call EXCEPT !.phase = "done"]
              /\ buf' = <<buf[1], result.val[1]>>
              /\ result' = IF d.err
                           THEN Fail(Err("decode", "json.Unmarshal failed", 0))
                           ELSE Ok(<<d.v>>)
    /\ UNCHANGED <<client, clock, inflight, attempts, mints, parked>>

PaginationNext == CallMarshalPagination \/ CallUnmarshalPagination \/ Resume

PaginationSpec == AuthInit /\ [][PaginationNext]_vars

ParseNext == CallParseAPIKey \/ Resume

ParseSpec == AuthInit /\ [][ParseNext]_vars

TokenNext == CallGenerateToken \/ CallGenerateTokenWithTime \/ Tick

TokenSpec == AuthInit /\ [][TokenNext]_vars

---------------------------------------------------------------------------
(* Properties.                                                             *)

Done == call.phase = "done"

Compound == {"PublishPost", "UnpublishPost", "SchedulePost", "PublishPage"}

\* the requests this operation has handed to httpClient.Do, in order
Issued ==
    LET s == SelectSeq(attempts, LAMBDA a : a.sent)
        r == [i \in 1..Len(s) |-> s[i].req]
    IN  IF inflight.method # "" THEN Append(r, inflight) ELSE r

\* the urls the id and slug requests of each get-by-key must have
ExpectedIDURL ==
    CASE call.kind = "post" -> baseURL \o "/posts/" \o call.key \o "/?formats=html"
      [] call.kind = "page" -> baseURL \o "/pages/" \o call.key \o "/?formats=html"
      [] call.kind = "tag"  -> baseURL \o "/tags/" \o call.key \o "/"
      [] call.kind = "user" -> baseURL \o "/users/" \o call.key \o "/"
      [] OTHER -> baseURL \o "/" \o call.kind \o "s/" \o call.key \o "/"

ExpectedSlugURL ==
    CASE call.kind = "post" ->
            baseURL \o "/posts/slug/" \o call.key \o "/?formats=html"
      [] call.kind = "page" ->
            baseURL \o "/pages/slug/" \o call.key \o "/?formats=html"
      [] call.kind = "tag"  -> baseURL \o "/tags/slug/" \o call.key \o "/"
      [] call.kind = "user" -> baseURL \o "/users/slug/" \o call.key \o "/"
      [] OTHER -> baseURL \o "/" \o call.kind \o "s/slug/" \o call.key \o "/"

\* C1: in GetPost, GetPage, GetTag and GetUser the first request goes to
\* the id path; once that attempt has failed (status >= 400, transport
\* error or decode error) a second request to the slug path has been
\* issued; and when the second attempt fails too the operation returns
\* the second attempt's error, not the first's.
C1_FallbackToSlug ==
    IsGet(call.op) =>
        /\ Len(Issued) >= 1 =>
              Issued[1].method = "GET" /\ Issued[1].url = ExpectedIDURL
        /\ (Len(attempts) >= 1 /\ attempts[1].sent /\ attempts[1].err # NoErr) =>
              /\ Len(Issued) >= 2
              /\ Issued[2].method = "GET"
              /\ Issued[2].url = ExpectedSlugURL
        /\ (Done /\ Len(attempts) = 2 /\ attempts[2].err # NoErr) =>
              result = Fail(attempts[2].err)

C1_Witness ==
    /\ Done
    /\ call.op = "GetTag"
    /\ Len(attempts) = 2
    /\ attempts[1].err.kind = "decode"
    /\ attempts[2].err.kind = "api"
    /\ attempts[2].req.url = baseURL \o "/tags/slug/my-post/"
    /\ result.err = attempts[2].err

\* a response that by itself gives a get-by-key a record: status < 400
\* and a body that decodes to a non-empty collection
GivesRecord(resp, kind) ==
    /\ resp.type = "http"
    /\ resp.status < 400
    /\ ~Unmarshal(resp.body, kind, <<>>).err
    /\ Len(Unmarshal(resp.body, kind, <<>>).v) > 0

\* C2: a get-by-key issues at most 2 requests; when the first response has
\* status < 400 and decodes to a non-empty collection the operation ends
\* successfully after that single request; a slug request is never the
\* first request and is only issued once the id attempt has failed.
C2_AtMostTwoRequests ==
    IsGet(call.op) =>
        /\ Len(Issued) <= 2
        /\ Len(attempts) <= 2
        /\ (Len(attempts) >= 1 /\ GivesRecord(attempts[1].resp, call.kind)) =>
              /\ Done
              /\ Len(Issued) = 1
              /\ result.state = "ok"
        /\ \A i \in 1..Len(Issued) :
              Issued[i].url = ExpectedSlugURL =>
                  /\ i = 2
                  /\ Issued[1].url = ExpectedIDURL
                  /\ attempts[1].sent
                  /\ attempts[1].err # NoErr

C2_Witness ==
    /\ Done
    /\ call.op = "GetPost"
    /\ Len(attempts) = 1
    /\ attempts[1].resp.status = 399
    /\ GivesRecord(attempts[1].resp, "post")
    /\ result.state = "ok"
    /\ result.val[1]["id"] = "2"

\* a body that holds an explicitly empty collection: decoding it empties
\* even a sink that held a record
HoldsEmpty(resp, kind) ==
    /\ resp.type = "http"
    /\ ~Unmarshal(resp.body, kind, <<Zero(kind)>>).err
    /\ Len(Unmarshal(resp.body, kind, <<Zero(kind)>>).v) = 0

ExpectedNotFound ==
    Fail(Err("notfound",
             (CASE call.op = "GetPost" -> "post"
                [] call.op = "GetPage" -> "page"
                [] call.op = "GetTag"  -> "tag"
                [] call.op = "GetUser" -> "user"
                [] OTHER -> "")
             \o " not found: " \o call.key, 0))

\* C3: when the last attempt of a get-by-key succeeded at the transport
\* level (status < 400, body decoded) and the decoded collection is empty,
\* the operation fails with "<kind> not found: <idOrSlug>"; when it is the
\* first (id) attempt that succeeded with an empty collection, no slug
\* request is issued.
C3_EmptyIsNotFound ==
    (IsGet(call.op) /\ Len(attempts) >= 1) =>
        LET last == attempts[Len(attempts)]
        IN  /\ (last.sent /\ last.err = NoErr /\ Len(last.sink) = 0) =>
                  Done /\ result = ExpectedNotFound
            /\ (last.sent /\ last.resp.status < 400
                    /\ HoldsEmpty(last.resp, call.kind)) =>
                  Done /\ result = ExpectedNotFound
            /\ (attempts[1].sent /\ attempts[1].err = NoErr
                    /\ Len(attempts[1].sink) = 0) =>
                  Len(Issued) = 1 /\ Len(attempts) = 1

C3_Witness ==
    /\ Done
    /\ call.op = "GetUser"
    /\ Len(attempts) = 1
    /\ attempts[1].resp.status = 200
    /\ HoldsEmpty(attempts[1].resp, "user")
    /\ result.err.text = "user not found: my-post"

\* the original C4: GetNewsletter, like the other four, follows a failed
\* id request by a slug request before it returns an error
C4_Original ==
    ((IsGet(call.op) \/ call.op = "GetNewsletter")
         /\ Len(attempts) >= 1 /\ attempts[1].sent /\ attempts[1].err # NoErr) =>
        /\ Len(Issued) >= 2
        /\ Issued[2].url = ExpectedSlugURL

\* C4 (amended): the id-then-slug fallback is applied by GetPost, GetPage,
\* GetTag and GetUser; GetNewsletter issues a single request, addressed by
\* id, and returns that request's error without a slug request.
C4_FallbackKinds ==
    /\ (IsGet(call.op) /\ Len(attempts) >= 1
            /\ attempts[1].sent /\ attempts[1].err # NoErr) =>
          /\ Len(Issued) >= 2
          /\ Issued[1].url = ExpectedIDURL
          /\ Issued[2].url = ExpectedSlugURL
    /\ call.op = "GetNewsletter" =>
          /\ Len(Issued) <= 1
          /\ Len(attempts) <= 1
          /\ \A i \in 1..Len(Issued) :
                Issued[i].url = baseURL \o "/newsletters/" \o call.key \o "/"
          /\ (Len(attempts) = 1 /\ attempts[1].err # NoErr) =>
                Done /\ result = Fail(attempts[1].err)

C4_Witness ==
    /\ Done
    /\ call.op = "GetNewsletter"
    /\ Len(attempts) = 1
    /\ attempts[1].sent
    /\ attempts[1].resp.status = 422
    /\ attempts[1].req.url = baseURL \o "/newsletters/my-post/"
    /\ result = Fail(attempts[1].err)

Malformed == ParseAPIKey(apiKey).err # ""

\* C5: with a malformed credential no operation ever hands a request to
\* httpClient.Do, and every operation returns the error
\* "generating token: " followed by the credential-format error.
C5_MalformedCredential ==
    Malformed =>
        /\ inflight = NoReq
        /\ Len(Issued) = 0
        /\ \A i \in 1..Len(attempts) : ~attempts[i].sent
        /\ call.phase \in {"idle", "done"}
        /\ Done =>
              result = Fail(Err("token", "generating token: "
                                         \o ParseAPIKey(apiKey).err, 0))

C5_Witness ==
    /\ Done
    /\ call.op = "UploadImage"
    /\ apiKey = <<"k", ":", "z", "a">>
    /\ Len(attempts) = 1
    /\ result.err.text =
          "generating token: invalid API key secret: encoding/hex: invalid byte: U+007A 'z'"

\* attempt i got an HTTP response
Answered(i) == attempts[i].sent /\ attempts[i].resp.type = "http"

\* the sink attempt i decodes into: none for a delete
SinkKind(i) == IF attempts[i].req.method = "DELETE" THEN "none" ELSE call.kind

\* what that sink held before attempt i: the slug attempt of a get-by-key
\* decodes into the buffer of the id attempt, every other call into a
\* fresh one
PrevSink(i) ==
    IF i = 2 /\ attempts[i].req.method = "GET" THEN attempts[1].sink ELSE <<>>

ErrorEnvelope ==
    JObj(<< <<"errors", JArr(<<JObj(<< <<"message",
                                         JStr("Not found")>> >>)>>)>> >>)

\* C6: the outcome of Client.do depends on the status alone: status >= 400
\* gives an API error with that status whatever the body is and leaves the
\* sink alone; status < 400 (399 included) never gives an API error: the
\* body is decoded into the sink, an error envelope too.
C6_StatusDiscriminates ==
    call.kind # "image" =>
        \A i \in 1..Len(attempts) :
            Answered(i) =>
                LET a == attempts[i]
                    d == Unmarshal(a.resp.body, call.kind, PrevSink(i))
                IN  /\ a.resp.status >= 400 =>
                          /\ a.err.kind = "api"
                          /\ a.err.status = a.resp.status
                          /\ a.sink = PrevSink(i)
                    /\ a.resp.status < 400 =>
                          /\ a.err.kind \in {"nil", "decode"}
                          /\ SinkKind(i) = "none" => a.err = NoErr
                          /\ SinkKind(i) # "none" =>
                                /\ a.sink = d.v
                                /\ (a.err = NoErr) <=> ~d.err

C6_Witness ==
    /\ Done
    /\ call.op = "ListPosts"
    /\ Len(attempts) = 1
    /\ attempts[1].resp.status = 399
    /\ attempts[1].resp.body = ErrorEnvelope
    /\ attempts[1].err = NoErr
    /\ result = Ok(<<>>)

\* the value of field f of the first entry of the "errors" array of a body
FirstEntry(body, f) ==
    LET i == CHOOSE i \in 1..Len(body.p) : body.p[i][1] = "errors"
        e == body.p[i][2].a[1]
    IN  IF \E j \in 1..Len(e.p) : e.p[j][1] = f
        THEN e.p[CHOOSE j \in 1..Len(e.p) : e.p[j][1] = f][2].s
        ELSE ""

\* the body decodes as an error envelope with at least one entry
DecodesWithEntry(body) ==
    /\ ~Unmarshal(body, "error", <<>>).err
    /\ Len(Unmarshal(body, "error", <<>>).v) > 0

\* C7: for status >= 400 the error text is "API error (<status>): <msg>";
\* <msg> is the first entry's message, followed by ": " and its context
\* exactly when the context is not empty, when the body decodes as an
\* error envelope with an entry, and the raw body text otherwise.
C7_APIErrorText ==
    call.kind # "image" =>
        \A i \in 1..Len(attempts) :
            (Answered(i) /\ attempts[i].resp.status >= 400) =>
                LET a == attempts[i]
                    b == a.resp.body
                    msg == IF DecodesWithEntry(b)
                           THEN IF FirstEntry(b, "context") # ""
                                THEN FirstEntry(b, "message") \o ": "
                                         \o FirstEntry(b, "context")
                                ELSE FirstEntry(b, "message")
                           ELSE Render(b)
                IN  a.err.text =
                        "API error (" \o ToString(a.resp.status) \o "): " \o msg

C7_Witness ==
    /\ Done
    /\ call.op = "CreateTag"
    /\ Len(attempts) = 1
    /\ attempts[1].resp.status = 422
    /\ result.err.text = "API error (422): Validation failed: Title is required"

\* attempt i got a status < 400 and a body that its sink cannot decode
Undecodable(i) ==
    /\ Answered(i)
    /\ attempts[i].resp.status < 400
    /\ SinkKind(i) # "none"
    /\ Unmarshal(attempts[i].resp.body, call.kind, PrevSink(i)).err

\* the original C8: in every operation an undecodable success response
\* ends the operation with the decode error; no request follows it
C8_Original ==
    \A i \in 1..Len(attempts) :
        Undecodable(i) =>
            /\ attempts[i].err.kind = "decode"
            /\ i = Len(attempts)
            /\ inflight = NoReq
            /\ Done
            /\ result = Fail(attempts[i].err)

\* C8 (amended): an undecodable success response makes the Transport call
\* fail with a decode error.  When that call is the id attempt of a
\* get-by-key, the error is absorbed and the slug request is issued;
\* everywhere else the operation returns the decode error and issues no
\* further request.
C8_DecodeErrorPropagates ==
    \A i \in 1..Len(attempts) :
        Undecodable(i) =>
            /\ attempts[i].err.kind = "decode"
            /\ IF i = 1 /\ (IsGet(call.op) \/ call.op \in Compound)
               THEN /\ Len(Issued) >= 2
                    /\ Issued[2].method = "GET"
                    /\ Issued[2].url = ExpectedSlugURL
               ELSE /\ i = Len(attempts)
                    /\ inflight = NoReq
                    /\ Done
                    /\ result = Fail(attempts[i].err)

C8_Witness ==
    /\ Done
    /\ call.op = "PublishPost"
    /\ Len(attempts) = 3
    /\ Undecodable(1)
    /\ attempts[3].req.method = "PUT"
    /\ Undecodable(3)
    /\ result.err.kind = "decode"

CreateOps == {"CreatePost", "CreatePage", "CreateTag", "CreateWebhook"}
UpdateOps == {"UpdatePost", "UpdatePage", "UpdateTag"}

ExpectedPlural ==
    CASE call.op \in {"CreatePost", "UpdatePost"} -> "posts"
      [] call.op \in {"CreatePage", "UpdatePage"} -> "pages"
      [] call.op \in {"CreateTag", "UpdateTag"}   -> "tags"
      [] call.op = "CreateWebhook"                -> "webhooks"
      [] OTHER -> ""

ExpectedNoneReturned ==
    CASE call.op \in {"CreatePost", "UpdatePost"} -> "no post returned"
      [] call.op \in {"CreatePage", "UpdatePage"} -> "no page returned"
      [] call.op \in {"CreateTag", "UpdateTag"}   -> "no tag returned"
      [] call.op = "CreateWebhook"                -> "no webhook returned"
      [] OTHER -> ""

\* C9: create and update send the record as the only element of the
\* collection under the plural key; they succeed exactly when the response
\* has status < 400, decodes and holds a non-empty collection, and then
\* return its first element; a decodable status < 400 response with an
\* empty collection fails with "no <kind> returned".
C9_WrapAndUnwrap ==
    call.op \in CreateOps \cup UpdateOps =>
        /\ Len(Issued) <= 1
        /\ \A i \in 1..Len(Issued) :
              LET b == Issued[i].body
              IN  /\ Issued[i].method =
                        (IF call.op \in CreateOps THEN "POST" ELSE "PUT")
                  /\ b.t = "obj"
                  /\ Len(b.p) = 1
                  /\ b.p[1][1] = ExpectedPlural
                  /\ b.p[1][2].t = "arr"
                  /\ Len(b.p[1][2].a) = 1
                  /\ b.p[1][2].a[1] \in
                        {Marshal(rec, call.kind) : rec \in ArgRecs(call.kind)}
        /\ (Done /\ attempts[1].sent) =>
              LET a    == attempts[1]
                  d    == Unmarshal(a.resp.body, call.kind, <<>>)
                  dec  == a.resp.type = "http" /\ a.resp.status < 400 /\ ~d.err
              IN  /\ (result.state = "ok") <=> (dec /\ Len(d.v) > 0)
                  /\ (dec /\ Len(d.v) > 0) => result = Ok(<<d.v[1]>>)
                  /\ (dec /\ Len(d.v) = 0) =>
                        result = Fail(Err("noreturn", ExpectedNoneReturned, 0))
        /\ (Done /\ ~attempts[1].sent) => result.state = "err"

C9_Witness ==
    /\ Done
    /\ call.op = "CreatePost"
    /\ Len(attempts) = 1
    /\ attempts[1].req.body =
          JObj(<< <<"posts", JArr(<<JObj(<< <<"slug", JStr("new")>> >>)>>)>> >>)
    /\ attempts[1].resp.status = 200
    /\ Len(attempts[1].sink) = 2
    /\ result.state = "ok"
    /\ result.val[1]["id"] = "2"

\* C10: in PublishPost, UnpublishPost, SchedulePost and PublishPage a PUT
\* is only ever issued right after a GET attempt that succeeded and left a
\* non-empty collection; when the get-by-key fails (error or not found)
\* the operation returns that error and no PUT is issued.
C10_PutOnlyAfterGet ==
    call.op \in Compound =>
        /\ \A i \in 1..Len(Issued) :
              Issued[i].method = "PUT" =>
                  /\ i \in {2, 3}
                  /\ i = Len(Issued)
                  /\ \A j \in 1..(i - 1) : Issued[j].method = "GET"
                  /\ attempts[i - 1].req = Issued[i - 1]
                  /\ attempts[i - 1].err = NoErr
                  /\ Len(attempts[i - 1].sink) > 0
        /\ (Done /\ \A i \in 1..Len(Issued) : Issued[i].method # "PUT") =>
              LET last == attempts[Len(attempts)]
              IN  /\ result.state = "err"
                  /\ last.err # NoErr => result = Fail(last.err)
                  /\ last.err = NoErr =>
                        /\ Len(last.sink) = 0
                        /\ result.err.kind = "notfound"

C10_Witness ==
    /\ Done
    /\ call.op = "SchedulePost"
    /\ Len(attempts) = 3
    /\ attempts[1].err.kind = "api"
    /\ attempts[2].err = NoErr
    /\ attempts[3].req.method = "PUT"
    /\ result.state = "ok"

\* the record a PUT or POST request carries: the only element of the
\* collection in its body
SentRecord(req) == req.body.p[1][2].a[1]

HasMember(obj, f) == \E i \in 1..Len(obj.p) : obj.p[i][1] = f

\* the member f of a JSON object (NoBody when it has none)
Member(obj, f) ==
    IF HasMember(obj, f)
    THEN obj.p[CHOOSE i \in 1..Len(obj.p) : obj.p[i][1] = f][2]
    ELSE NoBody

MemberNames(obj) == {obj.p[i][1] : i \in 1..Len(obj.p)}

ExpectedStatus ==
    CASE call.op = "PublishPost"   -> "published"
      [] call.op = "PublishPage"   -> "published"
      [] call.op = "UnpublishPost" -> "draft"
      [] call.op = "SchedulePost"  -> "scheduled"
      [] OTHER -> ""

\* the original C11: the PUT body of publish carries status "published",
\* of unpublish "draft", of schedule "scheduled" together with a
\* published_at equal to the publishAt argument, whatever that argument is
C11_Original ==
    call.op \in Compound =>
        \A i \in 1..Len(Issued) :
            Issued[i].method = "PUT" =>
                /\ Member(SentRecord(Issued[i]), "status") = JStr(ExpectedStatus)
                /\ call.op = "SchedulePost" =>
                      Member(SentRecord(Issued[i]), "published_at")
                          = JStr(call.when)

\* C11 (amended): the PUT body of publish carries status "published", of
\* unpublish "draft", of schedule "scheduled"; the body of schedule carries
\* published_at equal to the publishAt argument when that argument is not
\* the empty string, and no published_at at all when it is.
C11_PutStatus ==
    call.op \in Compound =>
        \A i \in 1..Len(Issued) :
            Issued[i].method = "PUT" =>
                LET r == SentRecord(Issued[i])
                IN  /\ Member(r, "status") = JStr(ExpectedStatus)
                    /\ (call.op = "SchedulePost" /\ call.when # "") =>
                          Member(r, "published_at") = JStr(call.when)
                    /\ (call.op = "SchedulePost" /\ call.when = "") =>
                          ~HasMember(r, "published_at")

C11_Witness ==
    /\ Done
    /\ call.op = "SchedulePost"
    /\ call.when = "2025-02-01T12:00:00Z"
    /\ Len(attempts) = 2
    /\ attempts[2].req.method = "PUT"
    /\ Render(attempts[2].req.body) =
          "{\"posts\":[{\"status\":\"scheduled\",\"published_at\":\"2025-02-01T12:00:00Z\",\"updated_at\":\"u2\"}]}"

\* the url an update of the record `id` must have
ExpectedPutURL(id) ==
    CASE call.kind = "post" ->
            baseURL \o "/posts/" \o id \o "/?source=html&formats=html"
      [] call.kind = "page" -> baseURL \o "/pages/" \o id \o "/?formats=html"
      [] OTHER -> baseURL \o "/tags/" \o id \o "/"

\* the string a record's member holds, "" standing for a member left out
MemberString(obj, f) == IF HasMember(obj, f) THEN Member(obj, f).s ELSE ""

\* C12: in PublishPost, UnpublishPost, SchedulePost and PublishPage the PUT
\* is addressed by the id of the record the get-by-key has just returned,
\* not by the caller's idOrSlug; its updated_at is that record's
\* updated_at; and its body holds one record with no member other than
\* updated_at, status and (SchedulePost only) published_at.
C12_PutFrame ==
    call.op \in Compound =>
        \A i \in 1..Len(Issued) :
            Issued[i].method = "PUT" =>
                LET fetched == attempts[i - 1].sink[1]
                    b       == Issued[i].body
                    r       == SentRecord(Issued[i])
                IN  /\ Issued[i].url = ExpectedPutURL(fetched["id"])
                    /\ MemberString(r, "updated_at") = fetched["updated_at"]
                    /\ MemberNames(b) = {Plural(call.kind)}
                    /\ Len(b.p[1][2].a) = 1
                    /\ MemberNames(r) \subseteq
                          {"updated_at", "status"}
                              \cup (IF call.op = "SchedulePost"
                                    THEN {"published_at"} ELSE {})

C12_Witness ==
    /\ Done
    /\ call.op = "PublishPage"
    /\ call.key = "my-post"
    /\ Len(attempts) = 2
    /\ attempts[1].err = NoErr
    /\ attempts[1].sink[1]["id"] = "2"
    /\ attempts[2].req.method = "PUT"
    /\ attempts[2].req.url = baseURL \o "/pages/2/?formats=html"
    /\ Render(attempts[2].req.body) =
          "{\"pages\":[{\"status\":\"published\",\"updated_at\":\"u2\"}]}"

ListBase ==
    CASE call.op = "ListPosts" -> "/posts/?formats=html"
      [] call.op = "ListPages" -> "/pages/?formats=html"
      [] call.op = "ListTags"  -> "/tags/?include=count.posts"
      [] OTHER -> ""

FilterClause ==
    IF call.op \in {"ListPosts", "ListPages"}
           /\ call.status # "" /\ call.status # "all"
    THEN "&filter=status:" \o call.status ELSE ""

LimitClause ==
    IF call.limit > 0 THEN "&limit=" \o ToString(call.limit) ELSE ""

\* C13: ListPosts and ListPages append "filter=status:<status>" exactly
\* when the status argument is neither empty nor "all"; ListPosts,
\* ListPages and ListTags append "limit=<n>" exactly when limit > 0; and
\* with a well-formed credential the one request is sent whatever the
\* arguments are, its outcome depending on the response alone.
C13_ListClauses ==
    (call.op \in {"ListPosts", "ListPages", "ListTags"} /\ ~Malformed) =>
        /\ Len(Issued) = 1
        /\ Issued[1].method = "GET"
        /\ Issued[1].url = baseURL \o ListBase \o FilterClause \o LimitClause
        /\ Done =>
              /\ attempts[1].sent
              /\ result.state = "err" => result = Fail(attempts[1].err)
              /\ result.state = "ok" <=>
                    do(attempts[1].resp, call.kind, <<>>).err = NoErr

C13_Witness ==
    /\ Done
    /\ call.op = "ListPosts"
    /\ call.status = "all"
    /\ call.limit = 0
    /\ attempts[1].req.url = baseURL \o "/posts/?formats=html"
    /\ attempts[1].resp.status = 200
    /\ result.state = "ok"
    /\ Len(result.val) = 2

DeleteOps == {"DeletePost", "DeletePage", "DeleteTag", "DeleteWebhook"}

ExpectedDeleteURL ==
    CASE call.op = "DeletePost"    -> baseURL \o "/posts/" \o call.key \o "/"
      [] call.op = "DeletePage"    -> baseURL \o "/pages/" \o call.key \o "/"
      [] call.op = "DeleteTag"     -> baseURL \o "/tags/" \o call.key \o "/"
      [] call.op = "DeleteWebhook" -> baseURL \o "/webhooks/" \o call.key \o "/"
      [] OTHER -> ""

\* C14: a delete (with a well-formed credential) issues exactly one
\* request: a DELETE to the id path, without a body; once answered, it
\* succeeds exactly when the status is below 400, whatever the body is.
C14_DeleteByStatus ==
    (call.op \in DeleteOps /\ ~Malformed) =>
        /\ Len(Issued) = 1
        /\ Issued[1].method = "DELETE"
        /\ Issued[1].url = ExpectedDeleteURL
        /\ Issued[1].body = NoBody
        /\ Done =>
              /\ Len(attempts) = 1
              /\ attempts[1].resp.type = "http" =>
                    (result.state = "ok" <=> attempts[1].resp.status < 400)
              /\ attempts[1].resp.type # "http" => result.state = "err"

C14_Witness ==
    /\ Done
    /\ call.op = "DeleteWebhook"
    /\ Len(attempts) = 1
    /\ attempts[1].req.method = "DELETE"
    /\ attempts[1].resp.status = 399
    /\ attempts[1].resp.body = JText("Internal Server Error")
    /\ result = Ok(<<>>)

\* the characters of a credential before and after its first separator
IdSegment(key) ==
    SubSeq(key, 1, (CHOOSE i \in 1..Len(key) : key[i] = ":"
                        /\ \A j \in 1..(i - 1) : key[j] # ":") - 1)
SecretSegment(key) ==
    SubSeq(key, Len(IdSegment(key)) + 2, Len(key))

Separators(key) == Cardinality({i \in 1..Len(key) : key[i] = ":"})

\* "{id}:{hex}" with a non-empty id and a non-empty, even-length,
\* hexadecimal secret
WellFormed(key) ==
    /\ Separators(key) = 1
    /\ IdSegment(key) # <<>>
    /\ SecretSegment(key) # <<>>
    /\ Len(SecretSegment(key)) % 2 = 0
    /\ \A i \in 1..Len(SecretSegment(key)) :
          SecretSegment(key)[i] \in
              {"0", "1", "2", "3", "4", "5", "6", "7", "8", "9",
               "a", "b", "c", "d", "e", "f", "A", "B", "C", "D", "E", "F"}

\* the value of a hexadecimal digit
Digit(c) ==
    CASE c = "0" -> 0 [] c = "1" -> 1 [] c = "2" -> 2 [] c = "3" -> 3
      [] c = "4" -> 4 [] c = "5" -> 5 [] c = "6" -> 6 [] c = "7" -> 7
      [] c = "8" -> 8 [] c = "9" -> 9 [] c = "a" -> 10 [] c = "b" -> 11
      [] c = "c" -> 12 [] c = "d" -> 13 [] c = "e" -> 14 [] c = "f" -> 15
      [] c = "A" -> 10 [] c = "B" -> 11 [] c = "C" -> 12 [] c = "D" -> 13
      [] c = "E" -> 14 [] c = "F" -> 15

\* the bytes a hexadecimal string stands for
Bytes(hex) ==
    [i \in 1..(Len(hex) \div 2) |->
        16 * Digit(hex[2 * i - 1]) + Digit(hex[2 * i])]

\* C15: ParseAPIKey returns (id, decoded secret bytes) and no error for
\* every "{id}:{hex}" with a non-empty id and an even-length hexadecimal
\* secret; it fails for every other string (no separator, two or more, an
\* empty id, an empty secret, a secret that is not hexadecimal); and when
\* it fails the id it returns is empty and the secret nil.
C15_ParseAPIKey ==
    (Done /\ call.op = "ParseAPIKey") =>
        LET key == call.key
            out == result.val[1]
        IN  /\ WellFormed(key) =>
                  /\ result.err = NoErr
                  /\ out.id = Str(IdSegment(key))
                  /\ out.secret = Bytes(SecretSegment(key))
                  /\ ~out.isNil
            /\ ~WellFormed(key) => result.err # NoErr
            /\ result.err # NoErr =>
                  /\ out.id = ""
                  /\ out.isNil
                  /\ out.secret = <<>>

C15_Witness ==
    /\ Done
    /\ call.op = "ParseAPIKey"
    /\ call.key = <<"k", ":", "a", "F">>
    /\ result.err = NoErr
    /\ result.val[1].id = "k"
    /\ result.val[1].secret = <<175>>

\* C16: GenerateTokenWithTime is a function of (credential, now) alone: any
\* two calls with the same credential and the same now have returned the
\* same token and the same error, whatever the wall clock was at each call
\* and whatever was called in between.
C16_MintDeterministic ==
    \A i, j \in 1..Len(mints) :
        (/\ mints[i].fn = "GenerateTokenWithTime"
         /\ mints[j].fn = "GenerateTokenWithTime"
         /\ mints[i].key = mints[j].key
         /\ mints[i].now = mints[j].now) =>
            /\ mints[i].token = mints[j].token
            /\ mints[i].err = mints[j].err

C16_Witness ==
    /\ Len(mints) = 3
    /\ mints[1].fn = "GenerateTokenWithTime"
    /\ mints[1].key = <<"k", ":", "0", "a">>
    /\ mints[1].now = 0
    /\ mints[1].at = 0
    /\ mints[2].fn = "GenerateToken"
    /\ mints[2].key = <<"a", ":", "a", "0">>
    /\ mints[3].fn = "GenerateTokenWithTime"
    /\ mints[3].key = mints[1].key
    /\ mints[3].now = 0
    /\ mints[3].at = 1
    /\ mints[3].err = ""
    /\ mints[3].token = mints[1].token

\* C17: every token minted by GenerateToken or GenerateTokenWithTime from
\* a well-formed credential expires exactly 300 seconds after it was
\* issued, has audience "/admin/", type "JWT", algorithm HS256 and a key
\* id equal to the id segment of the credential; and from a well-formed
\* credential a token is always minted.
C17_TokenShape ==
    \A i \in 1..Len(mints) :
        LET m == mints[i]
        IN  /\ WellFormed(m.key) => m.err = ""
            /\ m.err = "" =>
                  /\ WellFormed(m.key)
                  /\ m.token.exp - m.token.iat = 300
                  /\ m.token.iat = m.now
                  /\ m.token.aud = "/admin/"
                  /\ m.token.typ = "JWT"
                  /\ m.token.alg = "HS256"
                  /\ m.token.kid = Str(IdSegment(m.key))

C17_Witness ==
    /\ Len(mints) >= 2
    /\ mints[1].fn = "GenerateTokenWithTime"
    /\ mints[1].err = ""
    /\ mints[1].token.iat = 1
    /\ mints[1].token.exp = 301
    /\ mints[2].fn = "GenerateToken"
    /\ mints[2].at = 1
    /\ mints[2].token.iat = 1
    /\ mints[2].token.exp = 301
    /\ mints[2].token.kid = "a"

\* the token a well-formed credential gives at the instant `now`
FreshToken(key, now) ==
    [kid |-> Str(IdSegment(key)), typ |-> "JWT", alg |-> "HS256",
     iat |-> now, exp |-> now + 300, aud |-> "/admin/",
     key |-> Bytes(SecretSegment(key))]

\* a request has been built and handed to httpClient.Do in this step
Built == inflight' # inflight /\ inflight'.method # ""

\* C18: every request Client.request builds carries the Authorization
\* header "Ghost " followed by a token minted for that request, at the
\* instant it is built; and it carries Content-Type "application/json"
\* exactly when the call has a body: GET and DELETE requests have no body
\* and no Content-Type.
C18_Headers ==
    [][(Built /\ call'.kind # "image") =>
          /\ inflight'.auth = <<"Ghost ", FreshToken(apiKey, clock)>>
          /\ inflight'.body.t # "none" => inflight'.ctype = "application/json"
          /\ inflight'.body.t = "none" => inflight'.ctype = ""
          /\ inflight'.method \in {"GET", "DELETE"} =>
                inflight'.body = NoBody /\ inflight'.ctype = ""
          /\ inflight'.method \in {"POST", "PUT"} =>
                inflight'.ctype = "application/json"]_vars

C18_Witness ==
    /\ Done
    /\ call.op = "UnpublishPost"
    /\ Len(attempts) = 2
    /\ attempts[1].req.method = "GET"
    /\ attempts[1].req.ctype = ""
    /\ attempts[1].req.auth = <<"Ghost ", FreshToken(apiKey, 0)>>
    /\ attempts[2].req.method = "PUT"
    /\ attempts[2].req.ctype = "application/json"
    /\ attempts[2].req.auth = <<"Ghost ", FreshToken(apiKey, 1)>>

UploadOps == {"UploadImage", "UploadImageReader"}

\* the message Client.do derives from the body of an error response
EnvelopeMessage(b) ==
    IF DecodesWithEntry(b)
    THEN IF FirstEntry(b, "context") # ""
         THEN FirstEntry(b, "message") \o ": " \o FirstEntry(b, "context")
         ELSE FirstEntry(b, "message")
    ELSE Render(b)

\* the original C19: an upload fails on a response exactly when Client.do
\* would report an API error, and the message of its error is derived as
\* Client.do derives it: from the first entry of the error envelope when
\* the body is one, the raw body otherwise
C19_Original ==
    (call.op \in UploadOps /\ Done /\ attempts[1].sent
         /\ attempts[1].resp.type = "http") =>
        LET a == attempts[1]
        IN  /\ (a.err.kind = "upload") <=>
                   (do(a.resp, "image", <<>>).err.kind = "api")
            /\ a.resp.status >= 400 =>
                   a.err.text = "upload failed (" \o ToString(a.resp.status)
                                    \o "): " \o EnvelopeMessage(a.resp.body)

\* C19 (amended): an upload fails on a response exactly when Client.do
\* would report an API error, that is for every status >= 400 whatever the
\* body is; the text of its error is "upload failed (<status>): " followed
\* by the raw body, also when the body is an error envelope.
C19_UploadClassification ==
    (call.op \in UploadOps /\ Done /\ attempts[1].sent
         /\ attempts[1].resp.type = "http") =>
        LET a == attempts[1]
        IN  /\ (a.err.kind = "upload") <=> (a.resp.status >= 400)
            /\ (a.err.kind = "upload") <=>
                   (do(a.resp, "image", <<>>).err.kind = "api")
            /\ a.resp.status >= 400 =>
                   /\ result = Fail(a.err)
                   /\ a.err.status = a.resp.status
                   /\ a.err.text = "upload failed (" \o ToString(a.resp.status)
                                       \o "): " \o Render(a.resp.body)
            /\ a.resp.status < 400 => a.err.kind \in {"nil", "decode"}

C19_Witness ==
    /\ Done
    /\ call.op = "UploadImageReader"
    /\ attempts[1].sent
    /\ attempts[1].resp.status = 422
    /\ attempts[1].resp.body = ErrorEnvelope
    /\ result.err.text =
          "upload failed (422): {\"errors\":[{\"message\":\"Not found\"}]}"

\* C20: UploadImage with a well-formed credential and a path that cannot be
\* opened returns the error of os.Open and hands no request to
\* httpClient.Do.
C20_OpenFailsBeforeNetwork ==
    (call.op = "UploadImage" /\ call.src = "openfail" /\ ~Malformed) =>
        /\ Done
        /\ result = Fail(Err("io", "os.Open failed", 0))
        /\ inflight = NoReq
        /\ Len(Issued) = 0
        /\ \A i \in 1..Len(attempts) : ~attempts[i].sent

C20_Witness ==
    /\ Done
    /\ call.op = "UploadImage"
    /\ call.src = "openfail"
    /\ apiKey = <<"k", ":", "0", "a">>
    /\ result.err.kind = "io"
    /\ result.err.text = "os.Open failed"
    /\ Len(Issued) = 0

ListOps == {"ListPosts", "ListPages", "ListTags", "ListUsers",
            "ListNewsletters", "ListWebhooks"}

\* the kind of error Client.do gives for a response
ExpectedErrKind(resp, sink) ==
    CASE resp.type \in {"neterr", "readerr"} -> "network"
      [] resp.type = "http" /\ resp.status >= 400 -> "api"
      [] resp.type = "http" /\ resp.status < 400 /\ sink # "none"
             /\ Unmarshal(resp.body, sink, <<>>).err -> "decode"
      [] OTHER -> "nil"

\* C21: outside the get-by-key fallback nothing is retried and nothing is
\* swallowed: with a well-formed credential every list, create, update and
\* delete issues exactly one request, and when that request fails (network
\* error, status >= 400, undecodable body) the operation returns that very
\* error and issues nothing more.
C21_NoRetryNoSwallow ==
    (call.op \in ListOps \cup CreateOps \cup UpdateOps \cup DeleteOps
         /\ ~Malformed) =>
        /\ Len(Issued) = 1
        /\ Len(attempts) <= 1
        /\ Done =>
              LET a == attempts[1]
              IN  /\ a.sent
                  /\ a.req = Issued[1]
                  /\ a.err.kind = ExpectedErrKind(a.resp, SinkKind(1))
                  /\ a.err # NoErr => result = Fail(a.err)
                  /\ result.state = "ok" => a.err = NoErr

C21_Witness ==
    /\ Done
    /\ call.op = "UpdateTag"
    /\ Len(attempts) = 1
    /\ attempts[1].sent
    /\ attempts[1].resp.type = "neterr"
    /\ result = Fail(Err("network", "httpClient.Do failed", 0))

\* C22: NewClient removes at most one trailing "/" from the site URL and
\* appends "/ghost/api/admin": a URL that does not end in "/" is kept
\* whole, and a URL that ends in one or several "/" loses the last one only
\* (so that the "/" of the appended path takes its place).
C22_BaseURL ==
    (Done /\ call.op = "NewClient") =>
        LET url == call.key
        IN  /\ (url = <<>> \/ url[Len(url)] # "/") =>
                  baseURL = Str(url) \o "/ghost/api/admin"
            /\ (url # <<>> /\ url[Len(url)] = "/") =>
                  baseURL = Str(url) \o "ghost/api/admin"
            /\ result.val[1].baseURL = baseURL

C22_Witness ==
    /\ Done
    /\ call.op = "NewClient"
    /\ call.key = <<"h", "/", "/">>
    /\ baseURL = "h//ghost/api/admin"

\* C23: once the client is constructed no step of any operation, whether
\* it succeeds or fails, changes the client's baseURL, apiKey or
\* httpClient.
C23_ClientImmutable ==
    [][/\ baseURL' = baseURL
       /\ apiKey' = apiKey
       /\ httpClient' = httpClient]_vars

C23_Witness ==
    /\ Done
    /\ call.op = "PublishPage"
    /\ Len(attempts) = 3
    /\ attempts[1].err.kind = "network"
    /\ attempts[3].sent
    /\ attempts[3].err.kind = "api"
    /\ result.state = "err"
    /\ clock = 1
    /\ baseURL = "h/ghost/api/admin"
    /\ apiKey = <<"k", ":", "0", "a">>
    /\ httpClient = "default"

\* the goroutine taking a step, as a record of its locals
Running ==
    [call |-> call, inflight |-> inflight, attempts |-> attempts,
     buf |-> buf, result |-> result]

\* the answers a goroutine has received, in order; a request it never
\* made has no answer, which reads as a network error
Answers(l) ==
    [i \in 1..3 |->
        IF i <= Len(l.attempts) THEN l.attempts[i].resp
        ELSE [type |-> "neterr", status |-> 0, body |-> NoBody]]

\* what a get-by-key running alone returns on the answers rs, and how many
\* of them it takes
AloneGet(c, rs) ==
    LET d1 == do(rs[1], c.kind, <<>>)
        d2 == do(rs[2], c.kind, d1.buf)
        nf == Fail(Err("notfound", c.kind \o " not found: " \o c.key, 0))
    IN  IF d1.err = NoErr
        THEN [res |-> IF Len(d1.buf) = 0 THEN nf ELSE Ok(<<d1.buf[1]>>),
              used |-> 1]
        ELSE [res |-> IF d2.err # NoErr THEN Fail(d2.err)
                      ELSE IF Len(d2.buf) = 0 THEN nf ELSE Ok(<<d2.buf[1]>>),
              used |-> 2]

\* the same for a whole operation: a get-by-key, or one followed by an
\* update
Alone(c, rs) ==
    LET g == AloneGet(c, rs)
        d == do(rs[g.used + 1], c.kind, <<>>)
    IN  IF IsGet(c.op) \/ g.res.state = "err"
        THEN g
        ELSE [res |-> IF d.err # NoErr THEN Fail(d.err)
                      ELSE IF Len(d.buf) = 0
                      THEN Fail(Err("noreturn", "no " \o c.kind \o " returned", 0))
                      ELSE Ok(<<d.buf[1]>>),
              used |-> g.used + 1]

\* C24: two operations running concurrently on one client do not
\* interfere: under every interleaving, each operation that has returned
\* has received exactly the answers it would have asked for alone and has
\* returned what it returns alone on its arguments and these answers.
C24_NoInterference ==
    ~Malformed =>
        \A l \in {Running, parked} :
            l.call.phase = "done" =>
                /\ Len(l.attempts) = Alone(l.call, Answers(l)).used
                /\ l.result = Alone(l.call, Answers(l)).res
                /\ \A i \in 1..Len(l.attempts) :
                      /\ l.attempts[i].sent
                      /\ l.attempts[i].req.auth[1] = "Ghost "

C24_Witness ==
    /\ Done
    /\ call.op = "PublishPost"
    /\ Len(attempts) = 3
    /\ result.state = "ok"
    /\ result.val[1]["id"] = "2"
    /\ parked.call.phase = "done"
    /\ parked.call.op = "GetPost"
    /\ Len(parked.attempts) = 2
    /\ parked.attempts[1].err.kind = "decode"
    /\ parked.result.state = "err"
    /\ parked.result.err.kind = "api"

\* the number of tokens the operation in progress has minted
TokensMinted ==
    Cardinality({i \in 1..Len(attempts) : attempts[i].token # NoToken})
        + (IF inflight.method # "" \/ call.phase = "reading" THEN 1 ELSE 0)

\* the original C25: during any operation the number of tokens minted
\* equals the number of HTTP requests it has attempted
C25_Original == TokensMinted = Len(Issued)

\* what holds of the tokens of the operation in progress in every state
TokenPerRequest ==
    /\ \A i \in 1..Len(attempts) :
          attempts[i].sent =>
              /\ attempts[i].token # NoToken
              /\ attempts[i].req.auth = <<"Ghost ", attempts[i].token>>
    /\ TokensMinted >= Len(Issued)
    /\ call.op \notin UploadOps => TokensMinted = Len(Issued)
    /\ (call.op \in UploadOps /\ ~Malformed) =>
          /\ TokensMinted = 1
          /\ call.phase = "reading" => Len(Issued) = 0
          /\ call.src = "ok" => Len(Issued) = 1
          /\ call.src \in {"openfail", "readfail"} =>
                Done /\ Len(Issued) = 0
    /\ call.phase = "idle" =>
          inflight = NoReq /\ attempts = <<>> /\ TokensMinted = 0

\* C25 (amended): every HTTP request an operation attempts carries a token
\* minted for that request, never the token of an earlier request, and
\* nothing of it is left when the operation has returned: a Transport call
\* mints the token in the step that builds the request, an upload mints
\* it at entry and sends it once its source is read.  The tokens minted
\* are never fewer than the requests attempted, and as many except while
\* an upload reads its source and when that read fails: the upload has
\* minted one token and attempted no request.
C25_FreshToken ==
    [][/\ TokenPerRequest'
       /\ Built =>
             IF call'.op \in UploadOps
             THEN /\ call.phase = "reading"
                  /\ inflight'.auth[2] = call.token
                  /\ call.token # NoToken
                  /\ call.token.iat <= clock'
             ELSE inflight'.auth[2].iat = clock']_vars

C25_Witness ==
    /\ Done
    /\ call.op = "PublishPost"
    /\ Len(attempts) = 3
    /\ TokensMinted = 3
    /\ attempts[1].token.iat = 0
    /\ attempts[2].token.iat = 1
    /\ attempts[2].req.url = ExpectedSlugURL
    /\ attempts[3].req.method = "PUT"
    /\ attempts[3].token.iat = 1

\* attempt i is a GET that has handed a record to the compound operation
Fetched(i) ==
    /\ attempts[i].req.method = "GET"
    /\ attempts[i].err = NoErr
    /\ Len(attempts[i].sink) > 0

\* C26: the client validates no status transition.  In PublishPost,
\* UnpublishPost, SchedulePost and PublishPage, once the get-by-key has
\* returned a record the PUT is issued whatever status that record has,
\* the status the operation asks for included; and when the operation then
\* fails, its error is the error of that PUT's Transport call: an API
\* error exactly when the server answers 400 or more.
C26_NoLocalValidation ==
    call.op \in Compound =>
        \A i \in 1..Len(attempts) :
            Fetched(i) =>
                /\ IF Len(attempts) > i
                   THEN attempts[i + 1].sent /\ attempts[i + 1].req.method = "PUT"
                   ELSE inflight.method = "PUT" /\ ~Done
                /\ (Done /\ result.state = "err") =>
                      /\ Len(attempts) = i + 1
                      /\ result.err.kind \in {"api", "network", "decode", "noreturn"}
                      /\ result.err.kind # "noreturn" =>
                            result.err = attempts[i + 1].err
                      /\ result.err.kind = "api" <=>
                            /\ attempts[i + 1].resp.type = "http"
                            /\ attempts[i + 1].resp.status >= 400

C26_Witness ==
    /\ Done
    /\ call.op = "PublishPost"
    /\ Len(attempts) = 2
    /\ Fetched(1)
    /\ attempts[1].sink[1]["status"] = "published"
    /\ attempts[2].req.method = "PUT"
    /\ attempts[2].sent
    /\ attempts[2].resp.status = 422
    /\ result.state = "err"
    /\ result.err.kind = "api"
    /\ result.err.status = 422

\* what the members next and prev of the encoding must be for the original
PointerMember(ptr) == IF ptr = <<>> THEN JNull ELSE JNum(ptr[1])

\* C27: the encoding of a Pagination always has both a "next" and a "prev"
\* member, null when the page number is absent and the number otherwise;
\* and decoding the encoding gives back next and prev exactly as they
\* were, absence included, whatever the decoded variable held before.
C27_PaginationRoundTrip ==
    /\ (call.op = "Marshal" /\ call.phase = "marshalled") =>
          /\ result.state = "ok"
          /\ {"next", "prev"} \subseteq MemberNames(result.val[1])
          /\ Member(result.val[1], "next") = PointerMember(buf[1].next)
          /\ Member(result.val[1], "prev") = PointerMember(buf[1].prev)
    /\ (call.op = "Marshal" /\ call.phase = "done") =>
          /\ result.state = "ok"
          /\ result.val[1].next = buf[1].next
          /\ result.val[1].prev = buf[1].prev

C27_Witness ==
    /\ call.op = "Marshal"
    /\ call.phase = "done"
    /\ buf[1].next = <<>>
    /\ buf[1].prev = <<1>>
    /\ Render(buf[2]) =
          "{\"page\":1,\"limit\":1,\"pages\":1,\"total\":1,\"next\":null,\"prev\":1}"
    /\ result.state = "ok"
    /\ result.val[1].next = <<>>
    /\ result.val[1].prev = <<1>>

\* the operation has taken the slug fallback and its slug attempt has
\* returned without an error
FellBack ==
    /\ Len(attempts) >= 2
    /\ attempts[1].err # NoErr
    /\ attempts[2].sent
    /\ attempts[2].req.url = ExpectedSlugURL
    /\ attempts[2].err = NoErr

\* C28: when GetPost, GetPage, GetTag or GetUser takes the slug fallback,
\* its outcome is that of the second response alone: the record returned
\* is the first element of the collection the second response holds, and
\* a second response with no element gives "not found", whatever the
\* failed first attempt has left in the result buffer.
C28_SecondResponseAlone ==
    (IsGet(call.op) /\ Done /\ FellBack) =>
        LET alone == Unmarshal(attempts[2].resp.body, call.kind, <<>>)
        IN  result = IF Len(alone.v) = 0
                     THEN Fail(Err("notfound",
                                   call.kind \o " not found: " \o call.key, 0))
                     ELSE Ok(<<alone.v[1]>>)

\* the state in which C28 fails: the id request is answered 200 with a
\* collection whose second element is a string, the slug request 200 with
\* no collection at all, and GetPost returns the record of the first answer
C28_StaleRecord ==
    /\ call.op = "GetPost"
    /\ Done
    /\ FellBack
    /\ attempts[1].resp.status = 200
    /\ Render(attempts[1].resp.body) =
          "{\"posts\":[{\"id\":\"3\",\"status\":\"scheduled\",\"updated_at\":\"u3\"},\"x\"]}"
    /\ attempts[1].err.kind = "decode"
    /\ attempts[2].resp.status = 200
    /\ Render(attempts[2].resp.body) = "{\"errors\":[]}"
    /\ result.state = "ok"
    /\ result.val[1]["id"] = "3"

\* the most requests an operation of each class may send
MaxRequests ==
    CASE call.op \in Compound -> 3
      [] IsGet(call.op)       -> 2
      [] call.op = ""         -> 0
      [] OTHER                -> 1

\* an operation has been called and has not returned yet
InProgress == call.phase \notin {"idle", "done"}

RequestBound ==
    /\ Len(Issued) <= MaxRequests
    /\ Len(attempts) <= MaxRequests
    /\ \A i, j \in 1..Len(Issued) :
          i < j => <<Issued[i].method, Issued[i].url>>
                      # <<Issued[j].method, Issued[j].url>>
    /\ call.op \in Compound =>
          \A i \in 1..Len(Issued) :
              Issued[i].method = (IF i = Len(Issued) /\ i > 1 /\
                                     Issued[i].url # ExpectedSlugURL
                                  THEN "PUT" ELSE "GET")

\* C29: when every request gets a response or a network error, every
\* operation returns, and by then it has sent a bounded number of
\* requests: list, create, update, delete and upload at most 1, get-by-key
\* at most 2, publish, unpublish and schedule at most 3 (id GET, slug GET,
\* PUT); no request is sent twice.
C29_Terminates ==
    /\ []RequestBound
    /\ InProgress ~> Done

C29_Witness ==
    /\ Done
    /\ call.op = "SchedulePost"
    /\ Len(Issued) = 3
    /\ Issued[1].method = "GET"
    /\ Issued[1].url = ExpectedIDURL
    /\ Issued[2].method = "GET"
    /\ Issued[2].url = ExpectedSlugURL
    /\ Issued[3].method = "PUT"
    /\ result.state = "ok"

\* C30: GenerateToken is GenerateTokenWithTime at the wall clock of the
\* call.  For one credential the two functions fail together, with the
\* same error, whatever `now` is; and GenerateToken called at instant t
\* has returned the token GenerateTokenWithTime returns for that
\* credential and now = t.
C30_SameAsWithTime ==
    \A i, j \in 1..Len(mints) :
        (/\ mints[i].fn = "GenerateToken"
         /\ mints[j].fn = "GenerateTokenWithTime"
         /\ mints[i].key = mints[j].key) =>
            /\ mints[i].err = mints[j].err
            /\ mints[j].now = mints[i].at => mints[i].token = mints[j].token
            /\ (mints[i].err = "" /\ mints[j].now # mints[i].at) =>
                  mints[i].token # mints[j].token

C30_Witness ==
    /\ Len(mints) = 3
    /\ clock = 1
    /\ mints[1].fn = "GenerateTokenWithTime"
    /\ mints[1].key = <<"k", ":", "0", "a">>
    /\ mints[1].now = 1
    /\ mints[1].at = 0
    /\ mints[2].fn = "GenerateToken"
    /\ mints[2].key = mints[1].key
    /\ mints[2].at = 1
    /\ mints[2].err = ""
    /\ mints[2].token = mints[1].token
    /\ mints[2].token.iat = 1
    /\ mints[3].fn = "GenerateToken"
    /\ mints[3].key = <<"k", ":", "z", "a">>
    /\ mints[3].err # ""

====
